---- MODULE Spec2Model ----
(***************************************************************************)
(* A model of the compass test runner: the serial suite runner             *)
(* (compass/run/serial.py), TestCase.run and TestCase._run_step            *)
(* (compass/testcase.py) and the resources of a Substep                    *)
(* (compass/substep.py, compass/model.py).                                 *)
(*                                                                         *)
(* Two specifications share the variables:                                 *)
(*   Spec     run_tests in suite mode, one action per stage of a test case *)
(*   SpecFit  the life of one substep's resources: construction,           *)
(*            set_resources, constrain_resources                           *)
(***************************************************************************)
EXTENDS Integers, Sequences, FiniteSets, TLC

(***************************************************************************)
(* Bounds of the model.                                                    *)
(***************************************************************************)
\* test cases in the suite
MaxCases == 3
\* steps of a test case
MaxSteps == 2
\* substeps of a step
MaxSubsteps == 3
\* largest resource value (tasks, cores per task) of a request in SpecFit
MaxRes == 3
\* largest number of cores (total, per node) of the machine in SpecFit
MaxCap == 4
\* add_step calls on a test case in SpecCase
MaxAdds == 3
\* iterations of the ssh_adjustment step in SpecSsh
MaxIter == 3

None == "None"

\* an optional argument: not given (None), or given with a value
Nothing == [some |-> FALSE, val |-> 0]
Some(v) == [some |-> TRUE, val |-> v]

CaseNames == 1 .. MaxCases
StepNames == 1 .. MaxSteps
SubstepNames == 1 .. MaxSubsteps

\* a name the test case has no step for
UnknownStep == MaxSteps + 1

Range(s) == {s[i] : i \in DOMAIN s}

IsInjective(s) == \A i, j \in DOMAIN s : s[i] = s[j] => i = j

\* sequences over S without repetition, of length at most n
InjSeqs(S, n) == {s \in UNION {[1 .. k -> S] : k \in 0 .. n} : IsInjective(s)}

Min(a, b) == IF a <= b THEN a ELSE b

(***************************************************************************)
(* Substep resources.                                                      *)
(***************************************************************************)

\* Substep.__init__: the resources are stored as given, nothing is checked
Substep_init(cpus_per_task, min_cpus_per_task, ntasks, min_tasks) ==
    [cpus_per_task |-> cpus_per_task,
     min_cpus_per_task |-> min_cpus_per_task,
     ntasks |-> ntasks,
     min_tasks |-> min_tasks]

\* ModelSubstep.__init__: cores per task and their minimum are both the
\* number of OpenMP threads
ModelSubstep_init(ntasks, min_tasks, openmp_threads) ==
    Substep_init(openmp_threads, openmp_threads, ntasks, min_tasks)

\* a set_resources that puts the fields it is not given back to their default
Substep_set_resources_resetting(substep, cpus_per_task, min_cpus_per_task, ntasks, min_tasks) ==
    [cpus_per_task |-> IF cpus_per_task.some THEN cpus_per_task.val ELSE 1,
     min_cpus_per_task |->
        IF min_cpus_per_task.some THEN min_cpus_per_task.val ELSE 1,
     ntasks |-> IF ntasks.some THEN ntasks.val ELSE 1,
     min_tasks |-> IF min_tasks.some THEN min_tasks.val ELSE 1]

\* Substep.set_resources: an argument that is None leaves its field alone
Substep_set_resources(substep, cpus_per_task, min_cpus_per_task, ntasks, min_tasks) ==
    [cpus_per_task |->
        IF cpus_per_task.some THEN cpus_per_task.val
        ELSE substep.cpus_per_task,
     min_cpus_per_task |->
        IF min_cpus_per_task.some THEN min_cpus_per_task.val
        ELSE substep.min_cpus_per_task,
     ntasks |-> IF ntasks.some THEN ntasks.val ELSE substep.ntasks,
     min_tasks |-> IF min_tasks.some THEN min_tasks.val ELSE substep.min_tasks]

\* ModelSubstep.set_model_resources
ModelSubstep_set_model_resources(substep, ntasks, min_tasks, openmp_threads) ==
    Substep_set_resources(substep, openmp_threads, openmp_threads, ntasks,
                          min_tasks)

\* the cores-per-task stage of fit, without the check of the minimum
FitCpusNoCheck(request, available_cpus_per_node) ==
    [error |-> None,
     cpus_per_task |-> Min(request.cpus_per_task, available_cpus_per_node)]

\* ResourceFitter.fit, cores per task: capped at the cores of a node;
\* InsufficientCores when the minimum exceeds the cores of a node
FitCpus(request, available_cpus_per_node) ==
    IF request.min_cpus_per_task > available_cpus_per_node
    THEN [error |-> "InsufficientCores", cpus_per_task |-> 0]
    ELSE [error |-> None,
          cpus_per_task |-> Min(request.cpus_per_task, available_cpus_per_node)]

\* the tasks stage of fit, with the cap at the desired number forgotten
FitTasksNoCap(request, cpus_per_task, available_tasks) ==
    LET usable == available_tasks \div cpus_per_task
    IN  IF usable < request.min_tasks
        THEN [error |-> "InsufficientTasks", ntasks |-> 0]
        ELSE [error |-> None, ntasks |-> usable]

\* the tasks stage of fit, giving one task fewer than desired
FitTasksShrinking(request, cpus_per_task, available_tasks) ==
    LET ntasks == Min(request.ntasks - 1, available_tasks \div cpus_per_task)
    IN  IF ntasks < request.min_tasks
        THEN [error |-> "InsufficientTasks", ntasks |-> 0]
        ELSE [error |-> None, ntasks |-> ntasks]

\* ResourceFitter.fit, tasks: the tasks that fit on the available cores with
\* the fitted cores per task, never more than desired; InsufficientTasks when
\* that is below the minimum
FitTasks(request, cpus_per_task, available_tasks) ==
    LET ntasks == Min(request.ntasks, available_tasks \div cpus_per_task)
    IN  IF ntasks < request.min_tasks
        THEN [error |-> "InsufficientTasks", ntasks |-> 0]
        ELSE [error |-> None, ntasks |-> ntasks]

\* ResourceFitter.fit: a fitted allocation, or an error and no allocation
Fit(request, available_tasks, available_cpus_per_node) ==
    LET c == FitCpus(request, available_cpus_per_node)
    IN  IF c.error # None
        THEN [error |-> c.error, cpus_per_task |-> 0, ntasks |-> 0]
        ELSE LET t == FitTasks(request, c.cpus_per_task, available_tasks)
             IN  IF t.error # None
                 THEN [error |-> t.error, cpus_per_task |-> 0, ntasks |-> 0]
                 ELSE [error |-> None, cpus_per_task |-> c.cpus_per_task,
                       ntasks |-> t.ntasks]

\* Substep.constrain_resources: on success the fitted values replace the
\* substep's cpus_per_task and ntasks, which run_command is given later; on
\* failure the substep is left as it was and the error is raised
Substep_constrain_resources(substep, available_cores, cores_per_node) ==
    LET f == Fit(substep, available_cores, cores_per_node)
    IN  IF f.error # None
        THEN [error |-> f.error, substep |-> substep]
        ELSE [error |-> None,
              substep |-> [substep EXCEPT !.cpus_per_task = f.cpus_per_task,
                                          !.ntasks = f.ntasks]]

\* int(numpy.ceil(a / b)) for positive integers
CeilDiv(a, b) == (a + b - 1) \div b

\* the namelist before update_namelist_pio: no PIO option replaced
NoPio ==
    [error |-> None, updated |-> FALSE, config_pio_num_iotasks |-> 0,
     config_pio_stride |-> 0]

\* ModelSetupSubstep.update_namelist_pio (model.py 134-155): one PIO task
\* per node, the stride between them; ValueError and no replacement in the
\* namelist when the stride is above the cores of a node
\* an update_namelist_pio whose stride is rounded up
update_namelist_pio_rounding_up(cores, cores_per_node) ==
    LET pio_num_iotasks == CeilDiv(cores, cores_per_node)
        pio_stride == CeilDiv(cores, pio_num_iotasks)
    IN  IF pio_stride > cores_per_node
        THEN [NoPio EXCEPT !.error = "ValueError"]
        ELSE [error |-> None, updated |-> TRUE, config_pio_num_iotasks |-> pio_num_iotasks, config_pio_stride |-> pio_stride]

update_namelist_pio(cores, cores_per_node) ==
    LET pio_num_iotasks == CeilDiv(cores, cores_per_node)
        pio_stride == cores \div pio_num_iotasks
    IN  IF pio_stride > cores_per_node
        THEN [NoPio EXCEPT !.error = "ValueError"]
        ELSE [error |-> None, updated |-> TRUE,
              config_pio_num_iotasks |-> pio_num_iotasks,
              config_pio_stride |-> pio_stride]

(***************************************************************************)
(* The state.                                                              *)
(***************************************************************************)
VARIABLES
    args,             \* what main() calls run_tests with: is_test_case,
                      \* steps_to_run (--steps), steps_not_to_run (--no-steps)
    entry,            \* the entry point main() dispatched to
    pc,               \* where the entry point is
    idx,              \* position of the loop over test_suite['test_cases']
    test_case,        \* the test case of the current iteration
    substeps,         \* step.substeps of each step of test_case
    fs,               \* the files that exist in the work directories
    stepPos,          \* position of TestCase.run in steps_to_run
    substeps_to_run,  \* step.substeps_to_run of each step of test_case
    subPos,           \* position of _run_step in substeps_to_run
    exc,              \* the exception in flight or last caught in this
                      \* iteration, or NoExc
    raised_seen,      \* whether run_tests caught an exception of a run() or
                      \* a validate() so far
    run_status,       \* run_tests' run_status
    test_pass,        \* run_tests' test_pass
    success,          \* run_tests' success, by test case
    failures,         \* run_tests' failures
    ranCases,         \* the test cases whose run() was called, in call order
    calls,            \* what happened to test_case in this iteration: run()
                      \* called, run() returned, validate() called
    stepLog,          \* the steps _run_step was called for, in this run()
    subLog,           \* the substeps executed in this run(), in order
    open_logs,        \* the LoggingContexts that are open, outermost first
    running,          \* the substeps that were dispatched and have not
                      \* finished
    cwd,              \* os.getcwd(): the working directory of the process
    saved_cwd,        \* the locals named cwd of run_tests and of
                      \* TestCase.run
    step_config,      \* step.config of each step of test_case
    setupLog,         \* the runtime_setup and constrain_resources calls
                      \* for test_case, in call order
    substep,          \* SpecFit: the resources of the substep
    request,          \* SpecFit: the substep's resources when fit was called
    capacity,         \* SpecFit: the capacity fit was called with
    fit_error,        \* SpecFit: the error fit raised, or None
    overrides,        \* SpecFit: the arguments of the last set_resources
    pio,              \* SpecFit: the outcome of update_namelist_pio
    fpc,              \* SpecFit: "configure" before the fit, "fitted" after,
                      \* "refitted" after a second fit, "late" after a
                      \* set_resources that followed the fit, "pio" after
                      \* update_namelist_pio
    tc,               \* SpecCase: a test case under construction: its steps,
                      \* its steps_to_run, its validation and the outcome of
                      \* check_validation
    ssh,              \* SpecSsh: an SshAdjustment step: its config options,
                      \* its substeps, the files of its work directory and
                      \* the substep its run is at
    sel,              \* SpecSelect: an invocation of main: its arguments,
                      \* the pickle files of the directory, and what main
                      \* called or raised
    pair              \* SpecModel: the two substeps of add_model_substeps:
                      \* its arguments, the model substep's resources, the
                      \* step's substeps_to_run and what their run requested

rvars == <<args, entry, pc, idx, test_case, substeps, fs, stepPos, substeps_to_run,
           subPos, exc, raised_seen, run_status, test_pass, success, failures,
           ranCases, calls, stepLog, subLog, open_logs, running, cwd,
           saved_cwd, step_config, setupLog>>

fvars == <<substep, request, capacity, fit_error, overrides, pio, fpc>>

xvars == <<tc, ssh, sel, pair>>

vars == <<rvars, cwd, saved_cwd, step_config,
                   setupLog, fvars, xvars>>

(***************************************************************************)
(* The suite and its test cases.                                           *)
(***************************************************************************)

\* test_suite['test_cases'], in definition order
Suite == [i \in 1 .. MaxCases |-> i]

\* files: a declared input or output of a step, or what a substep leaves
InputFile(step) == [kind |-> "input", step |-> step, sub |-> 0]
OutputFile(step) == [kind |-> "output", step |-> step, sub |-> 0]
EffectFile(step, sub) == [kind |-> "effect", step |-> step, sub |-> sub]

\* step.inputs and step.outputs
Inputs(step) == {InputFile(step)}
Outputs(step) == {OutputFile(step)}

\* the substeps a step is built with: the first is an in-process substep with
\* the default resources, the others run the model as a command (args set
\* by ModelSubstep.setup); fits counts the calls of its constrain_resources
NewSubstep(name) ==
    IF name = 1
    THEN [res |-> Substep_init(1, 1, 1, 1), args |-> FALSE, fits |-> 0]
    ELSE [res |-> ModelSubstep_init(name, name - 1, 1), args |-> TRUE,
          fits |-> 0]

\* step.run_substeps_as_commands
RunSubstepsAsCommands(step) == step % 2 = 0

\* Step.add_substep: the substep is appended to the step's substeps_to_run
Step_add_substep(to_run, name) == Append(to_run, name)

\* the substeps_to_run after the add_substep calls of `adds`, in order
RECURSIVE AddSubsteps(_, _)
AddSubsteps(to_run, adds) ==
    IF adds = <<>> THEN to_run
    ELSE AddSubsteps(Step_add_substep(to_run, Head(adds)), Tail(adds))

\* the orders in which the substeps of a step are added: by name, or
\* starting from the second name
AddOrders ==
    {[i \in 1 .. MaxSubsteps |-> ((i - 1 + k) % MaxSubsteps) + 1] : k \in {0, 1}}

\* the machine: available cores and cores per node
Capacities ==
    {[cores |-> 1, cores_per_node |-> 1],
     [cores |-> 2, cores_per_node |-> 2],
     [cores |-> 8, cores_per_node |-> 4]}

\* the steps_to_run option of a test case's config file
ConfigStepsToRun == InjSeqs(StepNames, MaxSteps) \cup {<<UnknownStep>>}

\* what a test case is set up with: the config's steps_to_run, the cached
\* steps (at most one), the order in which its steps were given their
\* substeps, the machine, and the input files that exist (all, or all but one)
CaseConfigs ==
    [steps_to_run : ConfigStepsToRun,
     cached : {{}} \cup {{s} : s \in StepNames},
     adds : AddOrders,
     capacity : Capacities,
     missing : {{}} \cup {{s} : s \in StepNames}]

\* an exception: its type, the step it names and the files it names
Exc(type, step, files) == [type |-> type, step |-> step, files |-> files]
NoExc == Exc(None, 0, {})

NoValidation == [is_none |-> TRUE, internal_pass |-> None, baseline_pass |-> None]

Tri == {"True", "False", None}

Validations ==
    {NoValidation} \cup
    [is_none : {FALSE}, internal_pass : Tri, baseline_pass : Tri]

\* test_case.steps_to_run as it is stored in the pickle file: the steps
\* add_step was given, in order (testcase.py 192-194)
StoredSteps == [i \in 1 .. MaxSteps |-> i]

\* a list of step names that run_tests is not given (None), or given
NoSteps == [some |-> FALSE, val |-> <<>>]
SomeSteps(names) == [some |-> TRUE, val |-> names]

\* run_tests as main() calls it for a suite (serial.py 318-319, 333-334)
SuiteArgs ==
    [is_test_case |-> FALSE, steps_to_run |-> NoSteps,
     steps_not_to_run |-> NoSteps]

\* --steps: one or more names, steps of the test case or not
CliSteps == {NoSteps} \cup {SomeSteps(names) : names \in ConfigStepsToRun \ {<<>>}}

\* --no-steps: a name, a step of the test case or not
CliNoSteps ==
    {NoSteps} \cup {SomeSteps(<<step>>) : step \in StepNames \cup {UnknownStep}}

\* run_tests as main() calls it in the work directory of a test case
\* (serial.py 320-323)
TestCaseArgs ==
    [is_test_case : {TRUE}, steps_to_run : CliSteps,
     steps_not_to_run : CliNoSteps]

\* test_suite['test_cases'] (serial.py 64-65, 91): the test cases of the
\* suite, or the one test case of test_case.pickle
TestCases == IF args.is_test_case THEN <<Suite[1]>> ELSE Suite

NoCase ==
    [name |-> 0, config_steps |-> <<>>, steps_to_run |-> <<>>, cached |-> {},
     adds |-> <<>>, capacity |-> [cores |-> 1, cores_per_node |-> 1],
     validation |-> NoValidation]

\* an _update_steps_to_run that drops the names that are not steps of the
\* test case instead of raising
update_steps_to_run_dropping(steps_to_run, steps_not_to_run, config_steps, steps) ==
    LET requested == IF steps_to_run.some THEN steps_to_run.val
                     ELSE config_steps
        Kept(step) ==
            step \in steps /\ step \notin Range(steps_not_to_run.val)
    IN  [error |-> None, steps_to_run |-> SelectSeq(requested, Kept)]

\* an _update_steps_to_run that passes over the names of steps_not_to_run
\* that are not steps of the test case
update_steps_to_run_lenient(steps_to_run, steps_not_to_run, config_steps, steps) ==
    LET requested == IF steps_to_run.some THEN steps_to_run.val
                     ELSE config_steps
        Kept(step) == step \notin Range(steps_not_to_run.val)
    IN  IF \E i \in DOMAIN requested : requested[i] \notin steps
        THEN [error |-> "ValueError", steps_to_run |-> <<>>]
        ELSE IF steps_not_to_run.some
        THEN [error |-> None, steps_to_run |-> SelectSeq(requested, Kept)]
        ELSE [error |-> None, steps_to_run |-> requested]

\* _update_steps_to_run: the requested steps (the config's when none are
\* requested) without the steps not to run; ValueError for an unknown name
update_steps_to_run(steps_to_run, steps_not_to_run, config_steps, steps) ==
    LET requested == IF steps_to_run.some THEN steps_to_run.val
                     ELSE config_steps
        Kept(step) == step \notin Range(steps_not_to_run.val)
    IN  IF \E i \in DOMAIN requested : requested[i] \notin steps
        THEN [error |-> "ValueError", steps_to_run |-> <<>>]
        ELSE IF steps_not_to_run.some
        THEN IF \E i \in DOMAIN steps_not_to_run.val :
                    steps_not_to_run.val[i] \notin steps
             THEN [error |-> "ValueError", steps_to_run |-> <<>>]
             ELSE [error |-> None,
                   steps_to_run |-> SelectSeq(requested, Kept)]
        ELSE [error |-> None, steps_to_run |-> requested]

(***************************************************************************)
(* Spec: run_tests in suite mode.                                          *)
(***************************************************************************)

\* set_resources was not called: every argument is None
NoOverrides ==
    [cpus_per_task |-> Nothing, min_cpus_per_task |-> Nothing,
     ntasks |-> Nothing, min_tasks |-> Nothing]

\* the directory compass run is called in
EntryDir == <<>>

\* a local named cwd that has not been assigned
NoDir == <<0>>

\* test_case.work_dir: the directory of the test case's pickle, which is the
\* directory compass run is called in when it runs a single test case or
\* a step
TestCase_work_dir(is_test_case, e, name) ==
    IF is_test_case \/ e # "run_tests" THEN EntryDir ELSE <<name>>

\* step.work_dir: the directory of step.pickle, which is the directory
\* compass run is called in when it runs a step or a substep of it
Step_work_dir(is_test_case, e, name, step) ==
    IF e # "run_tests" THEN EntryDir
    ELSE TestCase_work_dir(is_test_case, e, name) \o <<step>>

\* an os.chdir that does not change the directory
os_chdir_ignored(now, path) == now

\* os.chdir(path): the working directory afterwards
os_chdir(now, path) == path

\* step.config as step.pickle or the suite's pickle holds it
Pickled == "pickle"

\* the config common_setup loaded and stored in test_case.config
Loaded == "common_setup"

\* the calls for one step in prepare_steps_to_run and in run_substep:
\* step.runtime_setup(), then constrain_resources of the substeps in
\* `fitted`, in order
StepEvents(step, fitted) ==
    <<[op |-> "runtime_setup", step |-> step, substep |-> 0]>> \o
    [i \in DOMAIN fitted |->
        [op |-> "constrain_resources", step |-> step, substep |-> fitted[i]]]

\* the calls of `log` with what they see: runtime_setup the step's config
\* attribute, constrain_resources the available cores
Seen(log, configs, cap) ==
    [i \in DOMAIN log |->
        [op |-> log[i].op, step |-> log[i].step, substep |-> log[i].substep,
         config |-> IF log[i].op = "runtime_setup"
                    THEN configs[log[i].step] ELSE None,
         capacity |-> cap]]

\* SpecCase is not running
CaseOff == tc = [steps |-> <<>>, steps_to_run |-> <<>>, calls |-> 0, validation |-> NoValidation, check |-> "off"]

\* SpecSsh is not running
SshOff == ssh = [spc |-> "off"]

\* SpecSelect is not running
SelectOff == sel = [spc |-> "off"]

\* SpecModel is not running
PairOff == pair = [mpc |-> "off"]

FitOff ==
    /\ substep = Substep_init(1, 1, 1, 1)
    /\ request = Substep_init(1, 1, 1, 1)
    /\ capacity = [cores |-> 1, cores_per_node |-> 1]
    /\ fit_error = None
    /\ overrides = NoOverrides
    /\ pio = NoPio
    /\ fpc = "off"

Init ==
    /\ args = SuiteArgs
    /\ entry = "run_tests"
    /\ pc = "loop"
    /\ idx = 1
    /\ test_case = NoCase
    /\ substeps = [s \in StepNames |-> [n \in SubstepNames |-> NewSubstep(n)]]
    /\ fs = {}
    /\ stepPos = 1
    /\ substeps_to_run = [s \in StepNames |-> <<>>]
    /\ subPos = 1
    /\ exc = NoExc
    /\ raised_seen = FALSE
    /\ run_status = None
    /\ test_pass = FALSE
    /\ success = [c \in CaseNames |-> None]
    /\ failures = 0
    /\ ranCases = <<>>
    /\ calls = <<>>
    /\ stepLog = <<>>
    /\ subLog = <<>>
    /\ open_logs = <<"suite">>
    /\ running = {}
    /\ cwd = EntryDir
    /\ saved_cwd = [run_tests |-> EntryDir, run |-> NoDir]
    /\ step_config = [s \in StepNames |-> Pickled]
    /\ setupLog = <<>>
    /\ FitOff
    /\ CaseOff
    /\ SshOff
    /\ SelectOff
    /\ PairOff

\* with LoggingContext(...) as logger: the context is opened where the
\* block begins
Enter(open, name) == Append(open, name)

\* the end of a with block that is left by its last statement: the
\* innermost open context is closed
Close(open) == SubSeq(open, 1, Len(open) - 1)

\* with blocks whose context stays open when an exception leaves them
UnwindLeavesOpen(open, depth) == open

\* an exception that leaves with blocks: every context opened inside the
\* block that catches it (or all of them, depth 0, when nothing does) is
\* closed on the way out
Unwind(open, depth) == SubSeq(open, 1, depth)

\* a run_command that returns while the command is still running
run_command_returns_at_once(sub) == ~sub.args

\* run_command waits for the command it launched, and substep.run() is a
\* call: _run_step goes on only when the substep has finished
run_command_blocks(sub) == TRUE

\* run_tests, the head of an iteration (serial.py 91-118): the next test
\* case of the suite becomes test_case, its LoggingContext is opened and
\* its work directory becomes the working directory; nothing of the
\* previous iteration is used again
NextCase ==
    /\ pc = "loop"
    /\ idx <= Len(TestCases)
    /\ test_case' = [NoCase EXCEPT !.name = TestCases[idx],
                                   !.steps_to_run = StoredSteps]
    /\ substeps' = [s \in StepNames |-> [n \in SubstepNames |-> NewSubstep(n)]]
    /\ substeps_to_run' = [s \in StepNames |-> <<>>]
    /\ fs' = {}
    /\ stepPos' = 1
    /\ subPos' = 1
    /\ exc' = NoExc
    /\ run_status' = None
    /\ test_pass' = FALSE
    /\ stepLog' = <<>>
    /\ subLog' = <<>>
    /\ calls' = <<>>
    /\ pc' = "setup"
    /\ open_logs' = Enter(open_logs, "case")
    /\ cwd' = os_chdir(cwd, TestCase_work_dir(args.is_test_case, entry,
                                               TestCases[idx]))
    /\ step_config' = [s \in StepNames |-> Pickled]
    /\ setupLog' = <<>>
    /\ UNCHANGED <<running, args, entry, idx, raised_seen, success, failures, ranCases, saved_cwd, fvars, xvars>>

\* run_tests, the setup of the test case (serial.py 94-124): common_setup
\* loads its config and _update_steps_to_run sets its steps_to_run.  Neither
\* call is inside a try: an exception of either leaves run_tests.
LoadCase ==
    /\ pc = "setup"
    /\ \E conf \in CaseConfigs, setup_ok \in BOOLEAN :
        LET r == update_steps_to_run(args.steps_to_run,
                                     args.steps_not_to_run,
                                     conf.steps_to_run, StepNames)
        IN  /\ test_case' = [name |-> test_case.name,
                             config_steps |-> conf.steps_to_run,
                             steps_to_run |->
                                IF setup_ok /\ r.error = None
                                THEN r.steps_to_run
                                ELSE test_case.steps_to_run,
                             cached |-> conf.cached,
                             adds |-> conf.adds,
                             capacity |-> conf.capacity,
                             validation |-> NoValidation]
            /\ substeps_to_run' =
                    [s \in StepNames |-> AddSubsteps(<<>>, conf.adds)]
            /\ fs' = {InputFile(s) : s \in StepNames \ conf.missing}
            /\ exc' = IF ~setup_ok THEN Exc("SetupError", 0, {})
                      ELSE Exc(r.error, 0, {})
            /\ pc' = IF setup_ok /\ r.error = None THEN "run" ELSE "aborted"
            /\ open_logs' = IF setup_ok /\ r.error = None THEN open_logs
                            ELSE Unwind(open_logs, 0)
    /\ UNCHANGED <<running, args, entry, idx, substeps, stepPos, subPos, raised_seen, run_status,
                   test_pass, success, failures, ranCases, calls, stepLog, subLog,
                   cwd, saved_cwd, step_config,
                   setupLog, fvars, xvars>>

\* TestCase.prepare_steps_to_run: for each step of steps_to_run that is not
\* cached, runtime_setup and then constrain_resources of every substep of
\* the step, in the order of step.substeps (the order they were added in);
\* the first error is raised.  The result: the substeps after the
\* loop (those fitted before the error keep their fitted values).
RECURSIVE PrepareSubsteps(_, _, _)
\* a loop over the substeps that ends after the first one
PrepareFirstSubstep(subs, names, cap) ==
    IF names = <<>> THEN [error |-> None, substeps |-> subs, fitted |-> <<>>]
    ELSE LET n == Head(names)
             f == Substep_constrain_resources(subs[n].res, cap.cores,
                                              cap.cores_per_node)
             called == [subs EXCEPT ![n].fits = @ + 1]
         IN  IF f.error # None
             THEN [error |-> f.error, substeps |-> called, fitted |-> <<n>>]
             ELSE [error |-> None,
                   substeps |-> [called EXCEPT ![n].res = f.substep],
                   fitted |-> <<n>>]

PrepareSubsteps(subs, names, cap) ==
    IF names = <<>> THEN [error |-> None, substeps |-> subs, fitted |-> <<>>]
    ELSE LET n == Head(names)
             f == Substep_constrain_resources(subs[n].res, cap.cores,
                                              cap.cores_per_node)
             called == [subs EXCEPT ![n].fits = @ + 1]
         IN  IF f.error # None
             THEN [error |-> f.error, substeps |-> called, fitted |-> <<n>>]
             ELSE LET rest == PrepareSubsteps(
                                  [called EXCEPT ![n].res = f.substep],
                                  Tail(names), cap)
                  IN  [rest EXCEPT !.fitted = <<n>> \o @]

\* a step.cached that is never read as true
StepNeverCached(cached, step) == FALSE

\* step.cached (testcase.py 155, 227)
StepCached(cached, step) == step \in cached

RECURSIVE prepare_steps_to_run(_, _, _, _, _)
prepare_steps_to_run(all, steps, cached, adds, cap) ==
    IF steps = <<>> THEN [error |-> None, substeps |-> all, log |-> <<>>]
    ELSE LET s == Head(steps)
         IN  IF StepCached(cached, s)
             THEN prepare_steps_to_run(all, Tail(steps), cached, adds, cap)
             ELSE LET r == PrepareSubsteps(all[s], adds, cap)
                  IN  IF r.error # None
                      THEN [error |-> r.error,
                            substeps |-> [all EXCEPT ![s] = r.substeps],
                            log |-> StepEvents(s, r.fitted)]
                      ELSE LET rest == prepare_steps_to_run(
                                   [all EXCEPT ![s] = r.substeps],
                                   Tail(steps), cached, adds, cap)
                           IN  [rest EXCEPT
                                   !.log = StepEvents(s, r.fitted) \o @]

\* run_tests calls test_case.run() (serial.py 132), which starts with
\* prepare_steps_to_run (testcase.py 150-152)
RunBegin ==
    /\ pc = "run"
    /\ ranCases' = Append(ranCases, test_case.name)
    /\ calls' = Append(calls, "run")
    /\ LET r == prepare_steps_to_run(substeps, test_case.steps_to_run,
                                     test_case.cached, test_case.adds,
                                     test_case.capacity)
       IN  /\ substeps' = r.substeps
           /\ setupLog' = setupLog \o Seen(r.log, step_config,
                                            test_case.capacity)
           /\ exc' = Exc(r.error, 0, {})
           /\ pc' = IF r.error = None THEN "step" ELSE "raised"
    /\ stepPos' = 1
    /\ saved_cwd' = [saved_cwd EXCEPT !.run = cwd]
    /\ UNCHANGED <<open_logs, running, args, entry, idx, test_case, fs, substeps_to_run, subPos, raised_seen,
                   run_status, test_pass, success, failures, stepLog, subLog,
                   cwd, step_config, fvars, xvars>>

\* TestCase.run, the loop over steps_to_run, read from the back
CurStepReversed ==
    test_case.steps_to_run[Len(test_case.steps_to_run) + 1 - stepPos]

\* TestCase.run, the loop over steps_to_run (testcase.py 153-154): the step
\* at the position the loop is at
CurStep == test_case.steps_to_run[stepPos]

\* _run_step with the check of the input files left out
NoMissingInputs(step, files) == {}

\* _run_step, testcase.py 269-272: the input files of the step that do not
\* exist
MissingInputs(step, files) == {f \in Inputs(step) : f \notin files}

\* _run_step with the check of the output files left out
NoMissingOutputs(step, files) == {}

\* _run_step, testcase.py 316-319: the output files of the step that do not
\* exist
MissingOutputs(step, files) == {f \in Outputs(step) : f \notin files}

\* TestCase.run, the head of an iteration over steps_to_run (testcase.py
\* 153-162), and the start of _run_step (264-278): a cached step is passed
\* over; for another step _run_step is called, which raises OSError when an
\* input file is missing
StepBegin ==
    /\ pc = "step"
    /\ stepPos <= Len(test_case.steps_to_run)
    /\ IF StepCached(test_case.cached, CurStep)
       THEN /\ stepPos' = stepPos + 1
            /\ UNCHANGED <<pc, exc, stepLog, subPos, open_logs, cwd,
                           step_config>>
       ELSE /\ stepLog' = Append(stepLog, CurStep)
            /\ step_config' = [step_config EXCEPT ![CurStep] = Loaded]
            /\ cwd' = os_chdir(cwd, Step_work_dir(args.is_test_case, entry,
                                                  test_case.name, CurStep))
            /\ subPos' = 1
            /\ LET missing_files == MissingInputs(CurStep, fs)
               IN  IF Cardinality(missing_files) > 0
                   THEN /\ pc' = "raised"
                        /\ exc' = Exc("MissingInputs", CurStep, missing_files)
                        /\ UNCHANGED open_logs
                   ELSE /\ pc' = "substep"
                        /\ exc' = NoExc
                        /\ open_logs' = Enter(open_logs, "step")
            /\ UNCHANGED stepPos
    /\ UNCHANGED <<running, args, entry, idx, test_case, substeps, fs, substeps_to_run, raised_seen,
                   run_status, test_pass, success, failures, ranCases, calls, subLog,
                   saved_cwd, setupLog, fvars, xvars>>

\* how _run_step dispatches a substep (testcase.py 297-314)
Dispatch(step, sub) ==
    IF sub.args THEN "run_command(args)"
    ELSE IF RunSubstepsAsCommands(step) THEN "run_command(compass run --substep)"
    ELSE "substep.run()"

\* _run_step, the loop over step.substeps_to_run, read from the back
NextSubstepReversed(step, pos) ==
    substeps_to_run[step][Len(substeps_to_run[step]) + 1 - pos]

\* _run_step, the loop over step.substeps_to_run (testcase.py 293-296): the
\* substep at position pos
NextSubstep(step, pos) == substeps_to_run[step][pos]

\* a substep whose failure is not noticed
SubstepNeverRaises(ok) == FALSE

\* _run_step, testcase.py 297-314: run_command raises when the command exits
\* non-zero and substep.run() raises when the work does; nothing catches it
\* inside the loop
SubstepRaises(ok) == ~ok

\* _run_step, one iteration over step.substeps_to_run (testcase.py 293-314),
\* the call: the substep at the position of the loop is dispatched, as a
\* command or in process, and _run_step waits for it
SubstepStart ==
    /\ pc = "substep"
    /\ subPos <= Len(substeps_to_run[CurStep])
    /\ LET name == NextSubstep(CurStep, subPos)
           sub == substeps[CurStep][name]
       IN  /\ running' = running \cup {<<CurStep, name>>}
           /\ IF run_command_blocks(sub)
              THEN /\ pc' = "in_substep"
                   /\ UNCHANGED subPos
              ELSE /\ subPos' = subPos + 1
                   /\ UNCHANGED pc
    /\ UNCHANGED <<open_logs, args, entry, idx, test_case, substeps, fs,
                   stepPos, substeps_to_run, exc, raised_seen, run_status,
                   test_pass, success, failures, ranCases, calls, stepLog,
                   subLog, cwd, saved_cwd, step_config,
                   setupLog, fvars, xvars>>

\* _run_step, one iteration over step.substeps_to_run (testcase.py 293-314),
\* the return: the substep has finished.  It succeeded, leaving its files
\* (the last substep may or may not leave the declared outputs), or it
\* failed, and the exception leaves the loop and the step's LoggingContext.
SubstepRun ==
    /\ pc = "in_substep"
    /\ LET name == NextSubstep(CurStep, subPos)
           sub == substeps[CurStep][name]
           last == subPos = Len(substeps_to_run[CurStep])
       IN  \E ok \in BOOLEAN, wrote \in (IF last THEN BOOLEAN ELSE {FALSE}) :
            /\ ok \/ ~wrote
            /\ running' = running \ {<<CurStep, name>>}
            /\ subLog' = Append(subLog,
                    [step |-> CurStep, substep |-> name,
                     how |-> Dispatch(CurStep, sub),
                     cpus_per_task |-> sub.res.cpus_per_task,
                     ntasks |-> sub.res.ntasks, ok |-> ok])
            /\ fs' = IF ok
                     THEN fs \cup {EffectFile(CurStep, name)}
                             \cup (IF wrote THEN Outputs(CurStep) ELSE {})
                     ELSE fs
            /\ IF SubstepRaises(ok)
               THEN /\ pc' = "raised"
                    /\ exc' = Exc("SubstepError", CurStep, {})
                    /\ open_logs' = Unwind(open_logs, Len(open_logs) - 1)
                    /\ UNCHANGED subPos
               ELSE /\ pc' = "substep"
                    /\ subPos' = subPos + 1
                    /\ UNCHANGED <<exc, open_logs>>
    /\ UNCHANGED <<args, entry, idx, test_case, substeps, stepPos,
                   substeps_to_run, raised_seen, run_status, test_pass,
                   success, failures, ranCases, calls, stepLog, cwd, saved_cwd, step_config,
                   setupLog, fvars, xvars>>

\* _run_step after the loop (testcase.py 316-325): OSError when an output
\* file is missing; otherwise _run_step returns and TestCase.run goes on to
\* the next step (testcase.py 169)
StepEnd ==
    /\ pc = "substep"
    /\ subPos > Len(substeps_to_run[CurStep])
    /\ LET missing_files == MissingOutputs(CurStep, fs)
       IN  IF Cardinality(missing_files) > 0
           THEN /\ pc' = "raised"
                /\ exc' = Exc("MissingOutputs", CurStep, missing_files)
                /\ UNCHANGED <<stepPos, cwd>>
           ELSE /\ pc' = "step"
                /\ stepPos' = stepPos + 1
                /\ cwd' = os_chdir(cwd, saved_cwd.run)
                /\ UNCHANGED exc
    /\ open_logs' = Close(open_logs)
    /\ UNCHANGED <<running, args, entry, idx, test_case, substeps, fs, substeps_to_run, subPos,
                   raised_seen, run_status, test_pass, success, failures,
                   ranCases, calls, stepLog, subLog, saved_cwd, step_config, setupLog, fvars, xvars>>

\* test_case.run() returns (serial.py 132-134)
RunReturn ==
    /\ entry = "run_tests"
    /\ pc = "step"
    /\ stepPos > Len(test_case.steps_to_run)
    /\ run_status' = "SUCCESS"
    /\ test_pass' = TRUE
    /\ calls' = Append(calls, "run returned")
    /\ pc' = "validate"
    /\ UNCHANGED <<open_logs, running, args, entry, idx, test_case, substeps, fs, stepPos, substeps_to_run,
                   subPos, exc, raised_seen, success, failures, ranCases,
                   stepLog, subLog, cwd, saved_cwd, step_config,
                   setupLog, fvars, xvars>>

\* run_tests without the except clause around test_case.run(): the exception
\* leaves run_tests
CatchRunMissing ==
    /\ entry = "run_tests"
    /\ pc = "raised"
    /\ pc' = "aborted"
    /\ open_logs' = Unwind(open_logs, 0)
    /\ UNCHANGED <<running, args, entry, idx, test_case, substeps, fs, stepPos, substeps_to_run,
                   subPos, exc, raised_seen, run_status, test_pass, success,
                   failures, ranCases, calls, stepLog, subLog, cwd, saved_cwd, step_config,
                   setupLog, fvars, xvars>>

\* run_tests going on to validate() after it caught the exception of run()
CatchRunThenValidate ==
    /\ entry = "run_tests"
    /\ pc = "raised"
    /\ run_status' = "ERROR"
    /\ test_pass' = FALSE
    /\ raised_seen' = TRUE
    /\ pc' = "validate"
    /\ UNCHANGED <<open_logs, running, args, entry, idx, test_case, substeps, fs, stepPos, substeps_to_run,
                   subPos, exc, success, failures, ranCases, calls, stepLog, subLog,
                   cwd, saved_cwd, step_config,
                   setupLog, fvars, xvars>>

\* the exception of a step (re-raised by TestCase.run, testcase.py 166-168)
\* or of prepare_steps_to_run is caught by run_tests (serial.py 135-138)
CatchRun ==
    /\ entry = "run_tests"
    /\ pc = "raised"
    /\ run_status' = "ERROR"
    /\ test_pass' = FALSE
    /\ raised_seen' = TRUE
    /\ pc' = "status"
    /\ UNCHANGED <<open_logs, running, args, entry, idx, test_case, substeps, fs, stepPos, substeps_to_run,
                   subPos, exc, success, failures, ranCases, calls, stepLog, subLog,
                   cwd, saved_cwd, step_config,
                   setupLog, fvars, xvars>>

\* run_tests calls test_case.validate() after a run that passed (serial.py
\* 140-150); validate may set test_case.validation and may raise, and
\* run_tests catches what it raises
Validate ==
    /\ entry = "run_tests"
    /\ pc = "validate"
    /\ calls' = Append(calls, "validate")
    /\ \E v \in Validations, raises \in BOOLEAN :
        /\ test_case' = [test_case EXCEPT !.validation = v]
        /\ IF raises
           THEN /\ run_status' = "ERROR"
                /\ test_pass' = FALSE
                /\ exc' = Exc("ValidateError", 0, {})
                /\ raised_seen' = TRUE
           ELSE UNCHANGED <<run_status, test_pass, exc, raised_seen>>
    /\ pc' = "status"
    /\ UNCHANGED <<open_logs, running, args, entry, idx, substeps, fs, stepPos, substeps_to_run, subPos,
                   success, failures, ranCases, stepLog, subLog, cwd, saved_cwd, step_config,
                   setupLog, fvars, xvars>>

\* a test_pass that takes an entry that is None for a failed comparison
FinalPassNoneFails(pass, validation) ==
    /\ pass
    /\ validation.is_none \/
         (/\ validation.internal_pass = "True"
          /\ validation.baseline_pass = "True")

\* run_tests, serial.py 152-173: test_pass after the validation dictionary
\* was looked at
FinalPass(pass, validation) ==
    /\ pass
    /\ validation.is_none \/
         (/\ validation.internal_pass # "False"
          /\ validation.baseline_pass # "False")

\* a run_tests that counts a failure for every check that failed
RecordPerCheck ==
    /\ pc = "status"
    /\ LET pass == FinalPass(test_pass, test_case.validation)
           v == test_case.validation
       IN  /\ test_pass' = pass
           /\ success' = [success EXCEPT ![test_case.name] =
                              IF pass THEN "PASS" ELSE "FAIL"]
           /\ failures' = failures
                            + (IF ~test_pass THEN 1 ELSE 0)
                            + (IF v.internal_pass = "False" THEN 1 ELSE 0)
                            + (IF v.baseline_pass = "False" THEN 1 ELSE 0)
    /\ idx' = idx + 1
    /\ pc' = "loop"
    /\ open_logs' = Close(open_logs)
    /\ UNCHANGED <<running, args, entry, test_case, substeps, fs, stepPos, substeps_to_run,
                   subPos, exc, raised_seen, run_status, calls, ranCases,
                   stepLog, subLog, cwd, saved_cwd, step_config,
                   setupLog, fvars, xvars>>

\* run_tests, the rest of the iteration (serial.py 152-199): the status of
\* the test case is recorded and the loop goes on
Record ==
    /\ pc = "status"
    /\ LET pass == FinalPass(test_pass, test_case.validation)
       IN  /\ test_pass' = pass
           /\ success' = [success EXCEPT ![test_case.name] =
                              IF pass THEN "PASS" ELSE "FAIL"]
           /\ failures' = IF pass THEN failures ELSE failures + 1
    /\ idx' = idx + 1
    /\ pc' = "loop"
    /\ open_logs' = Close(open_logs)
    /\ UNCHANGED <<running, args, entry, test_case, substeps, fs, stepPos, substeps_to_run, subPos,
                   exc, raised_seen, run_status, ranCases, calls, stepLog, subLog,
                   cwd, saved_cwd, step_config,
                   setupLog, fvars, xvars>>

\* a run_tests that returns after the timing table whatever failed
ReportAlwaysZero ==
    /\ pc = "loop"
    /\ idx > Len(TestCases)
    /\ pc' = "exit0"
    /\ open_logs' = Close(open_logs)
    /\ cwd' = os_chdir(cwd, saved_cwd.run_tests)
    /\ UNCHANGED <<running, args, entry, idx, test_case, substeps, fs, stepPos, substeps_to_run,
                   subPos, exc, raised_seen, run_status, test_pass, success,
                   failures, ranCases, calls, stepLog, subLog, saved_cwd, step_config, setupLog, fvars, xvars>>

\* run_tests after the loop (serial.py 201-225): the timing table, then
\* sys.exit(1) when a test case failed
Report ==
    /\ pc = "loop"
    /\ idx > Len(TestCases)
    /\ pc' = IF failures = 0 THEN "exit0" ELSE "exit1"
    /\ open_logs' = IF failures = 0 THEN Close(open_logs)
                    ELSE Unwind(open_logs, 0)
    /\ cwd' = os_chdir(cwd, saved_cwd.run_tests)
    /\ UNCHANGED <<running, args, entry, idx, test_case, substeps, fs, stepPos, substeps_to_run,
                   subPos, exc, raised_seen, run_status, test_pass, success,
                   failures, ranCases, calls, stepLog, subLog, saved_cwd, step_config, setupLog, fvars, xvars>>

Next ==
    \/ NextCase
    \/ LoadCase
    \/ RunBegin
    \/ StepBegin
    \/ SubstepStart
    \/ SubstepRun
    \/ StepEnd
    \/ RunReturn
    \/ CatchRun
    \/ Validate
    \/ Record
    \/ Report

Spec == Init /\ [][Next]_vars

(***************************************************************************)
(* SpecMain: main() and its three entry points, run_tests, run_step and    *)
(* run_substep.                                                            *)
(***************************************************************************)

Entries == {"run_tests", "run_step", "run_substep"}

\* what a step of step.pickle is set up with: as a test case, without the
\* config's steps_to_run, which run_step and run_substep do not read
StepConfigs == {conf \in CaseConfigs : conf.steps_to_run = <<>>}

\* before main() has looked at its arguments and the work directory
InitMain ==
    /\ args = SuiteArgs
    /\ entry = None
    /\ pc = "main"
    /\ idx = 1
    /\ test_case = NoCase
    /\ substeps = [s \in StepNames |-> [n \in SubstepNames |-> NewSubstep(n)]]
    /\ fs = {}
    /\ stepPos = 1
    /\ substeps_to_run = [s \in StepNames |-> <<>>]
    /\ subPos = 1
    /\ exc = NoExc
    /\ raised_seen = FALSE
    /\ run_status = None
    /\ test_pass = FALSE
    /\ success = [c \in CaseNames |-> None]
    /\ failures = 0
    /\ ranCases = <<>>
    /\ calls = <<>>
    /\ stepLog = <<>>
    /\ subLog = <<>>
    /\ open_logs = <<>>
    /\ running = {}
    /\ cwd = EntryDir
    /\ saved_cwd = [run_tests |-> NoDir, run |-> NoDir]
    /\ step_config = [s \in StepNames |-> Pickled]
    /\ setupLog = <<>>
    /\ FitOff
    /\ CaseOff
    /\ SshOff
    /\ SelectOff
    /\ PairOff

\* main (serial.py 318-328): run_tests for a suite, run_tests with
\* is_test_case and the --steps and --no-steps given in the work directory
\* of a test case, run_step in the work directory of a step, run_substep
\* when --substep is given there
Main ==
    /\ pc = "main"
    /\ \E e \in Entries :
        /\ entry' = e
        /\ IF e = "run_tests"
           THEN args' \in {SuiteArgs} \cup TestCaseArgs
           ELSE args' = args
        /\ pc' = CASE e = "run_tests" -> "loop"
                   [] e = "run_step" -> "load_step"
                   [] e = "run_substep" -> "load_substep"
        /\ open_logs' = IF e = "run_tests" THEN Enter(open_logs, "suite")
                        ELSE open_logs
        /\ saved_cwd' = IF e = "run_tests"
                        THEN [saved_cwd EXCEPT !.run_tests = cwd]
                        ELSE saved_cwd
    /\ UNCHANGED <<running, idx, test_case, substeps, fs, stepPos, substeps_to_run,
                   subPos, exc, raised_seen, run_status, test_pass, success,
                   failures, ranCases, calls, stepLog, subLog, cwd, step_config, setupLog, fvars, xvars>>

\* run_step, serial.py 239-245: the test case and the step are read from
\* step.pickle, steps_to_run becomes the step alone, and common_setup is
\* called, outside any try
LoadStep ==
    /\ entry = "run_step"
    /\ pc = "load_step"
    /\ \E step \in StepNames, conf \in StepConfigs, setup_ok \in BOOLEAN :
        /\ test_case' = [name |-> Suite[1],
                         config_steps |-> <<>>,
                         steps_to_run |-> <<step>>,
                         cached |-> conf.cached,
                         adds |-> conf.adds,
                         capacity |-> conf.capacity,
                         validation |-> NoValidation]
        /\ substeps_to_run' =
                [s \in StepNames |-> AddSubsteps(<<>>, conf.adds)]
        /\ fs' = {InputFile(s) : s \in StepNames \ conf.missing}
        /\ exc' = IF setup_ok THEN NoExc ELSE Exc("SetupError", 0, {})
        /\ pc' = IF setup_ok THEN "run" ELSE "aborted"
        /\ open_logs' = IF setup_ok THEN Enter(open_logs, "run_step")
                        ELSE open_logs
    /\ UNCHANGED <<running, args, entry, idx, substeps, stepPos, subPos, raised_seen,
                   run_status, test_pass, success, failures, ranCases, calls,
                   stepLog, subLog, cwd, saved_cwd, step_config,
                   setupLog, fvars, xvars>>

\* run_step, serial.py 251-252: test_case.run() returned and
\* test_case.validate() is next
RunStepReturn ==
    /\ entry = "run_step"
    /\ pc = "step"
    /\ stepPos > Len(test_case.steps_to_run)
    /\ calls' = Append(calls, "run returned")
    /\ pc' = "validate"
    /\ UNCHANGED <<open_logs, running, args, entry, idx, test_case, substeps, fs, stepPos, substeps_to_run,
                   subPos, exc, raised_seen, run_status, test_pass, success,
                   failures, ranCases, stepLog, subLog, cwd, saved_cwd, step_config,
                   setupLog, fvars, xvars>>

\* run_step, serial.py 252: test_case.validate() is called; nothing catches
\* what it raises, and nothing reads test_case.validation afterwards
RunStepValidate ==
    /\ entry = "run_step"
    /\ pc = "validate"
    /\ calls' = Append(calls, "validate")
    /\ \E v \in Validations, raises \in BOOLEAN :
        /\ test_case' = [test_case EXCEPT !.validation = v]
        /\ exc' = IF raises THEN Exc("ValidateError", 0, {}) ELSE exc
        /\ pc' = IF raises THEN "aborted" ELSE "exit0"
        /\ open_logs' = IF raises THEN Unwind(open_logs, 0)
                        ELSE Close(open_logs)
    /\ UNCHANGED <<running, args, entry, idx, substeps, fs, stepPos, substeps_to_run, subPos,
                   raised_seen, run_status, test_pass, success, failures,
                   ranCases, stepLog, subLog, cwd, saved_cwd, step_config,
                   setupLog, fvars, xvars>>

\* run_step, serial.py 251: nothing is around test_case.run(), so what it
\* raises leaves run_step and main
Propagate ==
    /\ entry = "run_step"
    /\ pc = "raised"
    /\ pc' = "aborted"
    /\ open_logs' = Unwind(open_logs, 0)
    /\ UNCHANGED <<running, args, entry, idx, test_case, substeps, fs, stepPos, substeps_to_run,
                   subPos, exc, raised_seen, run_status, test_pass, success,
                   failures, ranCases, calls, stepLog, subLog, cwd, saved_cwd, step_config,
                   setupLog, fvars, xvars>>

\* run_substep, serial.py 265-268: the test case and the step are read from
\* step.pickle and common_setup is called.  The test case's steps_to_run is
\* what was stored, its steps in order; stepPos is the position of the step
\* of the pickle and subPos that of the substep that was asked for.
LoadSubstep ==
    /\ entry = "run_substep"
    /\ pc = "load_substep"
    /\ \E step \in StepNames, position \in SubstepNames,
          conf \in StepConfigs, setup_ok \in BOOLEAN :
        /\ test_case' = [name |-> Suite[1],
                         config_steps |-> <<>>,
                         steps_to_run |-> StoredSteps,
                         cached |-> conf.cached,
                         adds |-> conf.adds,
                         capacity |-> conf.capacity,
                         validation |-> NoValidation]
        /\ substeps_to_run' =
                [s \in StepNames |-> AddSubsteps(<<>>, conf.adds)]
        /\ fs' = {InputFile(s) : s \in StepNames \ conf.missing}
        /\ stepPos' = step
        /\ subPos' = position
        /\ exc' = IF setup_ok THEN NoExc ELSE Exc("SetupError", 0, {})
        /\ pc' = IF setup_ok THEN "fit_substeps" ELSE "aborted"
        /\ open_logs' = IF setup_ok THEN Enter(open_logs, "run_substep")
                        ELSE open_logs
    /\ UNCHANGED <<running, args, entry, idx, substeps, raised_seen, run_status, test_pass,
                   success, failures, ranCases, calls, stepLog, subLog, cwd, saved_cwd, step_config,
                   setupLog, fvars, xvars>>

\* run_substep, serial.py 276-282: runtime_setup of the step, then
\* constrain_resources of every substep of the step; the first error leaves
\* run_substep
RunSubstepFit ==
    /\ entry = "run_substep"
    /\ pc = "fit_substeps"
    /\ LET r == PrepareSubsteps(substeps[CurStep], test_case.adds,
                                test_case.capacity)
       IN  /\ substeps' = [substeps EXCEPT ![CurStep] = r.substeps]
           /\ setupLog' = setupLog \o
                    Seen(StepEvents(CurStep, r.fitted), step_config,
                         test_case.capacity)
           /\ exc' = Exc(r.error, 0, {})
           /\ pc' = IF r.error = None THEN "only_substep" ELSE "aborted"
           /\ open_logs' = IF r.error = None THEN open_logs
                           ELSE Unwind(open_logs, 0)
    /\ UNCHANGED <<running, args, entry, idx, test_case, fs, stepPos, substeps_to_run, subPos,
                   raised_seen, run_status, test_pass, success, failures,
                   ranCases, calls, stepLog, subLog, cwd, saved_cwd, step_config, fvars, xvars>>

\* run_substep, serial.py 284-289: substep.run() of the substep that was
\* asked for, in process; what it raises leaves run_substep and main
RunSubstepRun ==
    /\ entry = "run_substep"
    /\ pc = "only_substep"
    /\ LET name == NextSubstep(CurStep, subPos)
           sub == substeps[CurStep][name]
       IN  \E ok \in BOOLEAN :
            /\ subLog' = Append(subLog,
                    [step |-> CurStep, substep |-> name,
                     how |-> "substep.run()",
                     cpus_per_task |-> sub.res.cpus_per_task,
                     ntasks |-> sub.res.ntasks, ok |-> ok])
            /\ fs' = IF ok THEN fs \cup {EffectFile(CurStep, name)} ELSE fs
            /\ exc' = IF ok THEN exc ELSE Exc("SubstepError", CurStep, {})
            /\ pc' = IF ok THEN "exit0" ELSE "aborted"
            /\ open_logs' = IF ok THEN Close(open_logs)
                            ELSE Unwind(open_logs, 0)
    /\ UNCHANGED <<running, args, entry, idx, test_case, substeps, stepPos, substeps_to_run,
                   subPos, raised_seen, run_status, test_pass, success,
                   failures, ranCases, calls, stepLog, cwd, saved_cwd, step_config,
                   setupLog, fvars, xvars>>

NextMain ==
    \/ Main
    \/ Next
    \/ LoadStep
    \/ RunStepReturn
    \/ RunStepValidate
    \/ Propagate
    \/ LoadSubstep
    \/ RunSubstepFit
    \/ RunSubstepRun

SpecMain == InitMain /\ [][NextMain]_vars

(***************************************************************************)
(* Claims about the suite run, checked under Spec.                         *)
(***************************************************************************)

IsPrefix(a, b) == Len(a) <= Len(b) /\ \A i \in DOMAIN a : a[i] = b[i]

\* the test case of the current iteration has been set up
CaseLoaded == pc \in {"run", "step", "substep", "in_substep", "raised",
                      "validate", "status"}
                 \/ (pc = "loop" /\ test_case.name # 0)

\* the positions of subLog that belong to a step
LogOf(step) == {i \in DOMAIN subLog : subLog[i].step = step}

\* the names of the substeps of a step in subLog, in order
NamesOf(step) ==
    LET InStep(e) == e.step = step
        entries == SelectSeq(subLog, InStep)
    IN  [i \in DOMAIN entries |-> entries[i].substep]

\* _run_step is inside the step: its substeps are being run
InStepNow(step) ==
    /\ pc \in {"substep", "in_substep"}
    /\ stepPos <= Len(test_case.steps_to_run)
    /\ CurStep = step

\* C1: in suite mode the test cases are run once each, in definition order:
\* when the loop is at position idx, exactly the idx - 1 test cases before it
\* have had run() called, whatever their outcome; the exception of a run() or
\* a validate() is caught and the loop goes on; run_tests only ends early for
\* an exception of the setup of a test case, and otherwise ends after run()
\* was called for every test case.
C1_FailureContainment ==
    /\ IsPrefix(ranCases, Suite)
    /\ pc \in {"loop", "setup", "run"} => Len(ranCases) = idx - 1
    /\ pc \in {"step", "substep", "in_substep", "raised", "validate",
              "status"} =>
            Len(ranCases) = idx /\ ranCases[idx] = test_case.name
    /\ pc = "raised" => ENABLED CatchRun
    /\ pc = "status" => ENABLED Record
    /\ pc = "loop" /\ idx <= Len(Suite) => ENABLED NextCase
    /\ pc = "aborted" => exc.type \in {"SetupError", "ValueError"}
    /\ pc \in {"exit0", "exit1"} => ranCases = Suite

\* C1 witness: the second test case raised in run() or validate() and is the
\* only failure, and run() was called for the third and for every other
C1_Witness ==
    /\ pc = "exit1"
    /\ raised_seen
    /\ failures = 1
    /\ success[2] = "FAIL"
    /\ Len(ranCases) >= 3
    /\ ranCases[3] = 3
    /\ ranCases = Suite

\* C2: a step that _run_step was called for while one of its input files did
\* not exist is the last step started, the exception in flight or caught is
\* the missing-inputs error naming it, and none of its substeps was executed.
C2_InputGate ==
    CaseLoaded =>
        \A i \in DOMAIN stepLog :
            (\E f \in Inputs(stepLog[i]) : f \notin fs) =>
                /\ i = Len(stepLog)
                /\ exc = Exc("MissingInputs", stepLog[i],
                             Inputs(stepLog[i]) \ fs)
                /\ pc \in {"raised", "status", "loop"}
                /\ LogOf(stepLog[i]) = {}
                /\ pc \in {"status", "loop"} =>
                        run_status = "ERROR" /\ ~test_pass

\* C2 witness: the second step of a run failed for a missing input after the
\* first step had executed its substeps
C2_Witness ==
    /\ pc = "status"
    /\ exc.type = "MissingInputs"
    /\ Len(stepLog) = 2
    /\ Len(subLog) = MaxSubsteps
    /\ LogOf(exc.step) = {}

\* every substep of the step was executed and succeeded
AllSubstepsSucceeded(step) ==
    /\ Cardinality(LogOf(step)) = Len(substeps_to_run[step])
    /\ \A i \in LogOf(step) : subLog[i].ok

\* C3: when _run_step is past the substeps of a step, all of which succeeded,
\* and an output file of the step does not exist, the exception is the
\* missing-outputs error naming the step and the missing files, no later
\* step is started, and the test case is recorded as failed.
C3_OutputGate ==
    CaseLoaded =>
        \A i \in DOMAIN stepLog :
            LET step == stepLog[i]
            IN  (/\ AllSubstepsSucceeded(step)
                 /\ ~InStepNow(step)
                 /\ \E f \in Outputs(step) : f \notin fs) =>
                    /\ i = Len(stepLog)
                    /\ exc = Exc("MissingOutputs", step, Outputs(step) \ fs)
                    /\ pc \in {"raised", "status", "loop"}
                    /\ pc \in {"status", "loop"} =>
                            run_status = "ERROR" /\ ~test_pass
                    /\ pc = "loop" =>
                            success[test_case.name] = "FAIL" /\ failures >= 1

\* C3 witness: a test case recorded as failed for a missing output of a step
\* whose substeps all succeeded
C3_Witness ==
    /\ pc = "loop"
    /\ test_case.name # 0
    /\ exc.type = "MissingOutputs"
    /\ exc.files = Outputs(exc.step)
    /\ AllSubstepsSucceeded(exc.step)
    /\ success[test_case.name] = "FAIL"

\* C4: the substeps of a step are executed in the order they were added to
\* the step: the names executed so far are a prefix of the add order, and
\* once the step's substeps have all succeeded they are exactly the add
\* order, each substep once, whatever values the substeps were fitted to.
C4_SubstepOrder ==
    CaseLoaded =>
        \A step \in StepNames :
            /\ IsPrefix(NamesOf(step), test_case.adds)
            /\ (/\ step \in Range(stepLog)
                /\ ~InStepNow(step)
                /\ exc.type \notin {"MissingInputs", "SubstepError"}
                      \/ exc.step # step) =>
                    NamesOf(step) = test_case.adds
            /\ \A i \in LogOf(step) :
                    /\ subLog[i].ntasks = substeps[step][subLog[i].substep].res.ntasks
                    /\ subLog[i].ntasks <= NewSubstep(subLog[i].substep).res.ntasks

\* C4 witness: a step ran all its substeps, added in an order that is not
\* the order of their names, and one of them ran on fewer tasks than desired
C4_Witness ==
    /\ pc = "step"
    /\ Len(stepLog) = 1
    /\ NamesOf(stepLog[1]) = test_case.adds
    /\ test_case.adds # [i \in 1 .. MaxSubsteps |-> i]
    /\ \A i \in DOMAIN subLog : subLog[i].ok
    /\ \E i \in DOMAIN subLog :
            subLog[i].ntasks < NewSubstep(subLog[i].substep).res.ntasks

\* C5: a substep that failed is the last substep executed in the run, the
\* exception of its step is in flight or was caught and the run is recorded
\* as an error, and the files of the substeps that succeeded before it exist.
C5_SubstepFailure ==
    CaseLoaded =>
        /\ \A i \in DOMAIN subLog :
            ~subLog[i].ok =>
                /\ i = Len(subLog)
                /\ exc = Exc("SubstepError", subLog[i].step, {})
                /\ stepLog[Len(stepLog)] = subLog[i].step
                /\ pc \in {"raised", "status", "loop"}
                /\ pc \in {"status", "loop"} =>
                        run_status = "ERROR" /\ ~test_pass
                /\ pc = "loop" => success[test_case.name] = "FAIL"
        /\ \A i \in DOMAIN subLog :
            subLog[i].ok => EffectFile(subLog[i].step, subLog[i].substep) \in fs

\* C5 witness: the second substep of a step failed after the first succeeded,
\* the run was recorded as an error and the first substep's file exists
C5_Witness ==
    /\ pc = "status"
    /\ run_status = "ERROR"
    /\ Len(subLog) = 2
    /\ subLog[1].ok
    /\ ~subLog[2].ok
    /\ subLog[1].step = subLog[2].step
    /\ EffectFile(subLog[1].step, subLog[1].substep) \in fs

\* the steps of a list that are not cached, in the order of the list
NonCached(steps) ==
    LET Runs(step) == step \notin test_case.cached
    IN  SelectSeq(steps, Runs)

\* C6: the steps _run_step was called for are the non-cached steps of
\* steps_to_run in list order, up to where the run is; a step that failed is
\* the last one started; a run that returned started all of them.
C6_StepOrder ==
    CaseLoaded =>
        /\ IsPrefix(stepLog, NonCached(test_case.steps_to_run))
        /\ pc = "step" =>
                stepLog = NonCached(SubSeq(test_case.steps_to_run, 1, stepPos - 1))
        /\ exc.type \in {"MissingInputs", "SubstepError", "MissingOutputs"} =>
                /\ stepLog # <<>>
                /\ stepLog[Len(stepLog)] = exc.step
                /\ pc \in {"raised", "status", "loop"}
        /\ run_status = "SUCCESS" => stepLog = NonCached(test_case.steps_to_run)

\* C6 witness: the first of two steps to run failed, the steps being listed
\* against the order of their names, and the second was not started
C6_Witness ==
    /\ pc = "status"
    /\ exc.type = "SubstepError"
    /\ Len(NonCached(test_case.steps_to_run)) = 2
    /\ test_case.steps_to_run[1] > test_case.steps_to_run[2]
    /\ stepLog = <<test_case.steps_to_run[1]>>

\* the test case of this iteration has been recorded
Recorded == pc = "loop" /\ test_case.name # 0

\* run() returned and validate() did not raise
RanAndValidated ==
    "run returned" \in Range(calls) /\ exc.type # "ValidateError"

\* C13: a test case is recorded as passed if and only if its run() did not
\* raise, its validate() did not raise and its validation, when not None,
\* has neither internal_pass nor baseline_pass False (an entry that is None
\* is no failure); a failed comparison leaves the run status SUCCESS.
C13_PassIff ==
    Recorded =>
        /\ success[test_case.name] = "PASS" <=>
                /\ RanAndValidated
                /\ \/ test_case.validation.is_none
                   \/ /\ test_case.validation.internal_pass \in {"True", None}
                      /\ test_case.validation.baseline_pass \in {"True", None}
        /\ success[test_case.name] \in {"PASS", "FAIL"}
        /\ RanAndValidated => run_status = "SUCCESS"

\* C13 witness: a test case whose run and validate went through was recorded
\* as failed for its baseline comparison alone, the internal one not being
\* applicable, and its run status is still SUCCESS
C13_Witness ==
    /\ Recorded
    /\ RanAndValidated
    /\ ~test_case.validation.is_none
    /\ test_case.validation.internal_pass = None
    /\ test_case.validation.baseline_pass = "False"
    /\ success[test_case.name] = "FAIL"
    /\ run_status = "SUCCESS"

\* the test cases recorded as failed
FailedCases == {c \in CaseNames : success[c] = "FAIL"}

\* C14: the failures counted are the test cases recorded as failed, one for
\* each whatever number of its checks failed, and the final report is made
\* with every test case recorded.
C14_FailureCount ==
    /\ failures = Cardinality(FailedCases)
    /\ pc \in {"exit0", "exit1"} =>
            \A c \in CaseNames : success[c] \in {"PASS", "FAIL"}
    /\ pc = "exit1" => failures >= 1
    /\ pc = "exit0" => failures = 0

\* C14 witness: the suite ended with one failure, that of its last test
\* case, whose internal and baseline comparisons both failed
C14_Witness ==
    /\ pc = "exit1"
    /\ failures = 1
    /\ FailedCases = {test_case.name}
    /\ ~test_case.validation.is_none
    /\ test_case.validation.internal_pass = "False"
    /\ test_case.validation.baseline_pass = "False"

\* _run_step has returned for every step it was called for: each of them has
\* run all its substeps, and the loop over the steps is at its head
StepsCompleted ==
    /\ pc = "step"
    /\ \A i \in DOMAIN stepLog :
            /\ NamesOf(stepLog[i]) = substeps_to_run[stepLog[i]]
            /\ \A k \in LogOf(stepLog[i]) : subLog[k].ok

\* C30: execution is strictly sequential.  At most one substep is in
\* progress at any time, and while it is the runner waits for it; a step is
\* started only when no substep is in progress and the steps before it have
\* completed (a step that failed ends the run of the test case: no step
\* follows it); a test case is started only when no substep is in progress
\* and the status of the test case before it has been recorded.
C30_StrictlySequential ==
    /\ [](Cardinality(running) <= 1)
    /\ [](running # {} =>
            /\ pc = "in_substep"
            /\ running = {<<CurStep, NextSubstep(CurStep, subPos)>>})
    /\ [][Len(stepLog') > Len(stepLog) =>
            /\ running = {}
            /\ StepsCompleted]_vars
    /\ [][(pc = "loop" /\ pc' = "setup") =>
            /\ running = {}
            /\ idx > 1 => success[TestCases[idx - 1]] \in {"PASS", "FAIL"}]_vars

\* the second test case of a suite is in the second substep of its second
\* step, after the first test case was recorded
C30_Witness ==
    /\ idx = 2
    /\ success[TestCases[1]] \in {"PASS", "FAIL"}
    /\ pc = "in_substep"
    /\ Len(stepLog) = 2
    /\ subPos = 2
    /\ Cardinality(running) = 1

(***************************************************************************)
(* Claims about the entry points, checked under SpecMain.                  *)
(***************************************************************************)

\* the exceptions of _run_step: the failures of a step
StepFailures == {"MissingInputs", "SubstepError", "MissingOutputs"}

\* C11: the failure of a step inside TestCase.run() does not leave
\* TestCase.run() as an exception: after run() was called, no failure of a
\* step is in flight in the caller of run() or has left the entry point.
C11_RunCaptures ==
    ("run" \in Range(calls) /\ exc.type \in StepFailures) =>
        pc \notin {"raised", "aborted"}

\* C12: in run_tests and in run_step, validate() of a test case is called
\* if and only if its run() returned: never after a run() that raised, and
\* always once run() has returned and the entry point has moved on.
C12_ValidateIffRunReturned ==
    /\ "validate" \in Range(calls) => "run returned" \in Range(calls)
    /\ ("run returned" \in Range(calls) /\ pc # "validate") =>
            "validate" \in Range(calls)
    /\ (pc \in {"raised", "status"} /\ exc.type \in StepFailures) =>
            "validate" \notin Range(calls)

\* C12 witness: in a suite the first test case passed and the run() of the
\* second raised; the second was recorded without a call of validate()
C12_Witness ==
    /\ entry = "run_tests"
    /\ pc = "loop"
    /\ idx = 3
    /\ success[1] = "PASS"
    /\ success[2] = "FAIL"
    /\ exc.type \in StepFailures
    /\ calls = <<"run">>

\* the process has ended: main returned (exit status 0), run_tests called
\* sys.exit(1), or an exception left main (exit status 1)
Exited == pc \in {"exit0", "exit1", "aborted"}

\* every test case of the suite has been recorded
AllRecorded ==
    /\ ranCases = TestCases
    /\ \A c \in Range(TestCases) : success[c] \in {"PASS", "FAIL"}

\* exit status 0 means success: of every test case in suite mode, of run()
\* and validate() in single-step mode, of the substep in single-substep mode
ZeroMeansSuccess ==
    pc = "exit0" =>
        /\ entry = "run_tests" =>
                \A c \in Range(TestCases) : success[c] = "PASS"
        /\ entry = "run_step" =>
                /\ calls = <<"run", "run returned", "validate">>
                /\ exc = NoExc
        /\ entry = "run_substep" =>
                /\ Len(subLog) = 1
                /\ subLog[1].ok
                /\ exc = NoExc

\* a non-zero exit status means a failure
NonZeroMeansFailure ==
    /\ pc = "exit1" => entry = "run_tests" /\ FailedCases # {}
    /\ pc = "aborted" => exc.type # None

\* C15, as stated: exit status 0 exactly on success, and in suite mode a
\* non-zero exit only after every test case was processed.
C15_NonZeroOnlyAfterAllCases ==
    /\ ZeroMeansSuccess
    /\ NonZeroMeansFailure
    /\ (entry = "run_tests" /\ pc \in {"exit1", "aborted"}) => AllRecorded

\* C15, amended: exit status 0 exactly on success; in suite mode the failure
\* of test cases gives the non-zero exit, by sys.exit(1), only after every
\* test case was recorded and the timing table printed, while an exception
\* of the setup of a test case (common_setup, an unknown step in
\* steps_to_run) ends run_tests at once, before the run() of that test case
\* and of those after it.
C15_ExitStatus ==
    /\ ZeroMeansSuccess
    /\ NonZeroMeansFailure
    /\ (entry = "run_tests" /\ pc = "exit1") => AllRecorded
    /\ (entry = "run_tests" /\ pc = "aborted") =>
            /\ exc.type \in {"SetupError", "ValueError"}
            /\ Len(ranCases) = idx - 1
            /\ success[TestCases[idx]] = None

\* C15 witness: the first test case of a suite failed and the runner exited
\* with status 1 after the last one
C15_Witness ==
    /\ entry = "run_tests"
    /\ pc = "exit1"
    /\ success[1] = "FAIL"
    /\ AllRecorded
    /\ idx = MaxCases + 1

\* the cached steps among the steps to run of the test case
CachedStepsToRun ==
    {step \in Range(test_case.steps_to_run) : step \in test_case.cached}

\* nothing was done for a step: _run_step was not called for it (no check of
\* its input or output files), none of its substeps was executed or had
\* constrain_resources called, nothing was written, and no exception names it
Untouched(step) ==
    /\ step \notin Range(stepLog)
    /\ LogOf(step) = {}
    /\ \A n \in SubstepNames : substeps[step][n] = NewSubstep(n)
    /\ OutputFile(step) \notin fs
    /\ \A n \in SubstepNames : EffectFile(step, n) \notin fs
    /\ exc.step # step

\* TestCase.run is at a cached step of its loop over steps_to_run
AtCachedStep ==
    /\ pc = "step"
    /\ stepPos <= Len(test_case.steps_to_run)
    /\ CurStep \in test_case.cached

\* C16: in a TestCase.run() nothing is done for a cached step of
\* steps_to_run (no substep executed, no fitting, no check of input or
\* output files, no failure), and the loop goes from a cached step to the
\* next position without any other change.
C16_CachedStepSkipped ==
    /\ []("run" \in Range(calls) => \A step \in CachedStepsToRun : Untouched(step))
    /\ [][AtCachedStep =>
            /\ pc' = "step"
            /\ stepPos' = stepPos + 1
            /\ UNCHANGED <<test_case, substeps, fs, exc, stepLog, subLog>>]_vars

\* C16 witness: run() returned for a test case whose first step to run is
\* cached and lacks its input file, and whose second step was executed
C16_Witness ==
    /\ "run returned" \in Range(calls)
    /\ Len(test_case.steps_to_run) = 2
    /\ test_case.steps_to_run[1] \in test_case.cached
    /\ InputFile(test_case.steps_to_run[1]) \notin fs
    /\ stepLog = <<test_case.steps_to_run[2]>>
    /\ exc = NoExc

\* prepare_steps_to_run of this TestCase.run() has returned
Prepared == "run" \in Range(calls) /\ pc \in {"step", "substep", "in_substep"}

\* the steps of the test case that are not cached, in steps_to_run or not
StepsToFit == StepNames \ test_case.cached

\* C17: after prepare_steps_to_run no substep of the test case is left
\* unfitted: constrain_resources was called for every substep of every
\* step of the test case that is not cached, in steps_to_run or not.
C17_PrepareFitsAll ==
    Prepared =>
        \A step \in StepsToFit : \A n \in SubstepNames :
            substeps[step][n].fits >= 1

\* C18: within a run every substep of the test case (of a step that is
\* not cached) is fitted exactly once, and from the end of
\* prepare_steps_to_run to the end of the run the fitted resources of the
\* substeps do not change.
C18_FitOnce ==
    /\ [](Prepared =>
            \A step \in StepsToFit : \A n \in SubstepNames :
                substeps[step][n].fits = 1)
    /\ [][Prepared => substeps' = substeps]_vars

\* the list run_tests was asked to run: --steps, or steps_to_run of the
\* config when --steps is not given
Requested ==
    IF args.steps_to_run.some THEN args.steps_to_run.val
    ELSE test_case.config_steps

\* the names of --no-steps
Excluded == Range(args.steps_not_to_run.val)

\* a requested or an excluded name is not a step of the test case
UnknownName == (Range(Requested) \cup Excluded) \ StepNames # {}

\* where a step is in a list without repetitions
PositionIn(list, step) == CHOOSE i \in DOMAIN list : list[i] = step

\* C24: once run_tests has set up a test case, its steps_to_run holds
\* exactly the requested names that are not excluded, in the order of the
\* requested list; with a requested or excluded name that is not a step of
\* the test case run_tests ends with ValueError and the steps_to_run of
\* the test case is the stored one.
C24_StepsToRun ==
    (/\ entry = "run_tests"
     /\ CaseLoaded \/ pc = "aborted"
     /\ exc.type # "SetupError") =>
        IF UnknownName
        THEN /\ pc = "aborted"
             /\ exc.type = "ValueError"
             /\ test_case.steps_to_run = StoredSteps
        ELSE LET steps == test_case.steps_to_run
             IN  /\ pc # "aborted"
                 /\ Range(steps) = Range(Requested) \ Excluded
                 /\ \A i, j \in DOMAIN steps :
                        i < j => PositionIn(Requested, steps[i])
                                    < PositionIn(Requested, steps[j])

\* C24 witness: in the work directory of a test case, --steps 2 1 with
\* --no-steps 2 leaves step 1 to run, whatever the config lists
C24_Witness ==
    /\ pc = "run"
    /\ args.is_test_case
    /\ args.steps_to_run = SomeSteps(<<2, 1>>)
    /\ args.steps_not_to_run = SomeSteps(<<2>>)
    /\ test_case.config_steps = <<1, 2>>
    /\ test_case.steps_to_run = <<1>>

\* C25, as stated: a configuration error, the ValueError for a requested
\* or excluded name that is not a step, ends the invocation before the
\* run() of any test case was called, so before any step or substep of any
\* test case was executed.
C25_ConfigErrorBeforeExecution ==
    (pc = "aborted" /\ exc.type = "ValueError") => ranCases = <<>>

\* nothing of the test case of this iteration, or of a later one, has been
\* executed or recorded
NotStarted ==
    /\ Len(ranCases) = idx - 1
    /\ calls = <<>>
    /\ stepLog = <<>>
    /\ subLog = <<>>
    /\ \A i \in idx .. Len(TestCases) :
            /\ TestCases[i] \notin Range(ranCases)
            /\ success[TestCases[i]] = None

\* C25, amended: the ValueError for a requested or excluded name that is
\* not a step of a test case ends the invocation before any step or
\* substep of that test case, or of a later test case, was executed; a
\* test case with such a name is never run.  The test cases before it in
\* a suite have been run and recorded; alone in its work directory the
\* test case is the first, and nothing was executed.
C25_ConfigErrorBeforeCase ==
    entry = "run_tests" =>
        /\ (pc = "aborted" /\ exc.type = "ValueError") =>
                /\ UnknownName
                /\ NotStarted
                /\ args.is_test_case => ranCases = <<>>
        /\ ((CaseLoaded \/ pc = "aborted") /\ exc.type # "SetupError"
                /\ UnknownName) =>
                /\ pc = "aborted"
                /\ test_case.name \notin Range(ranCases)

\* C25 witness: the second test case of a suite lists an unknown step in
\* its config; run_tests ended there, after the first test case was run
\* and recorded
C25_Witness ==
    /\ pc = "aborted"
    /\ exc.type = "ValueError"
    /\ ~args.is_test_case
    /\ idx = 2
    /\ ranCases = <<1>>
    /\ success[1] \in {"PASS", "FAIL"}
    /\ test_case.config_steps = <<UnknownStep>>

\* C27: whenever a substep is executed, in the run of a step or on its own,
\* a substep that has a command is dispatched as an external process with
\* its fitted resources, and a substep without one runs its work in process
\* (under run_substeps_as_commands, in the process of the compass run
\* --substep command).
C27_DispatchByCommand ==
    \A i \in DOMAIN subLog :
        LET sub == substeps[subLog[i].step][subLog[i].substep]
        IN  /\ subLog[i].how = (IF sub.args THEN "run_command(args)"
                                ELSE IF entry = "run_substep"
                                     THEN "substep.run()"
                                     ELSE Dispatch(subLog[i].step, sub))
            /\ subLog[i].ntasks = sub.res.ntasks
            /\ subLog[i].cpus_per_task = sub.res.cpus_per_task

\* the pc values at which _run_step is inside its with block
InStepBlock == pc \in {"substep", "in_substep"}

\* the pc values at which run_tests is inside the with block of a test case
InCaseBlock ==
    pc \in {"setup", "run", "step", "substep", "in_substep", "raised",
            "validate", "status"}

\* the contexts that are open when the runner is at pc
ContextsAtPc ==
    CASE pc = "main" \/ Exited -> <<>>
      [] entry = "run_tests" ->
            IF InStepBlock THEN <<"suite", "case", "step">>
            ELSE IF InCaseBlock THEN <<"suite", "case">>
            ELSE <<"suite">>
      [] entry = "run_step" ->
            IF InStepBlock THEN <<"run_step", "step">>
            ELSE IF pc = "load_step" THEN <<>>
            ELSE <<"run_step">>
      [] entry = "run_substep" ->
            IF pc = "load_substep" THEN <<>> ELSE <<"run_substep">>

\* C29: every LoggingContext the runner opens (suite, test case, step) is
\* closed on every exit path, exceptions and sys.exit included: exactly the
\* contexts of the with blocks the runner is inside are open, none once it
\* has exited; and a context is only opened inside, and closed before, the
\* context it is nested in: every step opens one context on top of those
\* that are open or closes the innermost ones.
C29_ContextsClosed ==
    /\ [](open_logs = ContextsAtPc)
    /\ [][\/ IsPrefix(open_logs', open_logs)
          \/ /\ Len(open_logs') = Len(open_logs) + 1
             /\ IsPrefix(open_logs, open_logs')]_vars

\* a suite whose last test case failed in a substep: the exception closed
\* the step's context, the test case's was closed at the end of its
\* iteration and the suite's by sys.exit(1)
C29_Witness ==
    /\ entry = "run_tests"
    /\ pc = "exit1"
    /\ exc.type = "SubstepError"
    /\ open_logs = <<>>

(***************************************************************************)
(* SpecFit: the resources of one substep, from its construction to its     *)
(* fit.                                                                    *)
(***************************************************************************)

\* the resource values a substep is constructed or configured with
ResValues == 1 .. MaxRes

\* the substep of the example: 8 tasks desired, at least 4, 2 cores per task
ExampleSubstep == ModelSubstep_init(8, 4, 2)

\* the machine of the example: 10 cores, 4 on a node
ExampleCapacity == [cores |-> 10, cores_per_node |-> 4]

\* the machines a substep is fitted to
FitCapacities ==
    [cores : 1 .. MaxCap, cores_per_node : 1 .. MaxCap] \cup {ExampleCapacity}

\* an optional resource argument
OptRes == {Nothing} \cup {Some(v) : v \in ResValues}

RunnerOff ==
    /\ args = SuiteArgs
    /\ entry = None
    /\ pc = "off"
    /\ idx = 1
    /\ test_case = NoCase
    /\ substeps = [s \in StepNames |-> [n \in SubstepNames |-> NewSubstep(n)]]
    /\ fs = {}
    /\ stepPos = 1
    /\ substeps_to_run = [s \in StepNames |-> <<>>]
    /\ subPos = 1
    /\ exc = NoExc
    /\ raised_seen = FALSE
    /\ run_status = None
    /\ test_pass = FALSE
    /\ success = [c \in CaseNames |-> None]
    /\ failures = 0
    /\ ranCases = <<>>
    /\ calls = <<>>
    /\ stepLog = <<>>
    /\ subLog = <<>>
    /\ open_logs = <<>>
    /\ running = {}
    /\ cwd = EntryDir
    /\ saved_cwd = [run_tests |-> NoDir, run |-> NoDir]
    /\ step_config = [s \in StepNames |-> Pickled]
    /\ setupLog = <<>>

\* a substep is constructed: by Substep.__init__ with any resources, by
\* ModelSubstep.__init__, or as the example's
InitFit ==
    /\ RunnerOff
    /\ CaseOff
    /\ SshOff
    /\ SelectOff
    /\ PairOff
    /\ \/ \E c, mc, n, mn \in ResValues : substep = Substep_init(c, mc, n, mn)
       \/ \E n, mn, t \in ResValues : substep = ModelSubstep_init(n, mn, t)
       \/ substep = ExampleSubstep
    /\ request = substep
    /\ capacity = [cores |-> 1, cores_per_node |-> 1]
    /\ fit_error = None
    /\ overrides = NoOverrides
    /\ pio = NoPio
    /\ fpc = "configure"

\* Substep.set_resources is called before the fit
SetResources ==
    /\ fpc = "configure"
    /\ \E c, mc, n, mn \in OptRes :
        /\ substep' = Substep_set_resources(substep, c, mc, n, mn)
        /\ overrides' = [cpus_per_task |-> c, min_cpus_per_task |-> mc,
                         ntasks |-> n, min_tasks |-> mn]
    /\ request' = substep'
    /\ UNCHANGED <<capacity, fit_error, pio, fpc, rvars, xvars>>

\* ModelSubstep.set_model_resources is called before the fit
SetModelResources ==
    /\ fpc = "configure"
    /\ \E n, mn, t \in OptRes :
        /\ substep' = ModelSubstep_set_model_resources(substep, n, mn, t)
        /\ overrides' = [cpus_per_task |-> t, min_cpus_per_task |-> t,
                         ntasks |-> n, min_tasks |-> mn]
    /\ request' = substep'
    /\ UNCHANGED <<capacity, fit_error, pio, fpc, rvars, xvars>>

\* substep.constrain_resources(available_cores), as prepare_steps_to_run
\* calls it (testcase.py 223, 236)
ConstrainResources ==
    /\ fpc = "configure"
    /\ \E cap \in FitCapacities :
        LET r == Substep_constrain_resources(substep, cap.cores,
                                             cap.cores_per_node)
        IN  /\ substep' = r.substep
            /\ fit_error' = r.error
            /\ capacity' = cap
    /\ request' = substep
    /\ fpc' = "fitted"
    /\ UNCHANGED <<overrides, pio, rvars, xvars>>

\* constrain_resources is called again with the same available cores: by
\* run_substep in the process of a substep run as a command (serial.py
\* 278-282), or by a second prepare_steps_to_run
ConstrainAgain ==
    /\ fpc = "fitted"
    /\ LET r == Substep_constrain_resources(substep, capacity.cores,
                                            capacity.cores_per_node)
       IN  /\ substep' = r.substep
           /\ fit_error' = r.error
    /\ fpc' = "refitted"
    /\ UNCHANGED <<request, capacity, overrides, pio, rvars, xvars>>

\* the arguments of a set_resources call after the fit: each left at None
\* or given the largest value
LateRes == {Nothing, Some(MaxRes)}

\* Substep.set_resources is called after the fit (substep.py 135-146: the
\* same assignments as before the fit, nothing is checked or raised)
SetResourcesAfterFit ==
    /\ fpc = "fitted"
    /\ fit_error = None
    /\ \E c, mc, n, mn \in LateRes :
        /\ substep' = Substep_set_resources(substep, c, mc, n, mn)
        /\ overrides' = [cpus_per_task |-> c, min_cpus_per_task |-> mc,
                         ntasks |-> n, min_tasks |-> mn]
    /\ fpc' = "late"
    /\ UNCHANGED <<request, capacity, fit_error, pio, rvars, xvars>>

\* ModelSetupSubstep.run calls update_namelist_pio (model.py 116-117) with
\* the cpus_per_task of the model substep as they are when the substep
\* runs, after the fit, and the cores_per_node of the config
UpdateNamelistPio ==
    /\ fpc \in {"fitted", "late"}
    /\ fit_error = None
    /\ pio' = update_namelist_pio(substep.cpus_per_task,
                                  capacity.cores_per_node)
    /\ fpc' = "pio"
    /\ UNCHANGED <<substep, request, capacity, fit_error, overrides, rvars, xvars>>

NextFit ==
    \/ SetResources
    \/ SetModelResources
    \/ ConstrainResources
    \/ ConstrainAgain
    \/ SetResourcesAfterFit
    \/ UpdateNamelistPio

SpecFit == InitFit /\ [][NextFit]_vars

(***************************************************************************)
(* Claims about the fit, checked under SpecFit.                            *)
(***************************************************************************)

\* the fit was called and gave an allocation
FitSucceeded == fpc = "fitted" /\ fit_error = None

\* the request satisfies the invariant of a ResourceRequest
WellFormed(r) ==
    /\ r.min_tasks <= r.ntasks
    /\ r.min_cpus_per_task <= r.cpus_per_task

\* C7: whenever the fit of a substep succeeds, the fitted tasks are between
\* the request's min_tasks and its desired tasks, and the fitted cores per
\* task between its min_cpus_per_task and its desired cores per task.
C7_FittedWithinRequest ==
    FitSucceeded =>
        /\ request.min_tasks <= substep.ntasks
        /\ substep.ntasks <= request.ntasks
        /\ request.min_cpus_per_task <= substep.cpus_per_task
        /\ substep.cpus_per_task <= request.cpus_per_task

\* the bounds of C7 for the requests whose minimums do not exceed what they
\* desire
FittedWithinWellFormedRequest ==
    FitSucceeded /\ WellFormed(request) =>
        /\ request.min_tasks <= substep.ntasks
        /\ substep.ntasks <= request.ntasks
        /\ request.min_cpus_per_task <= substep.cpus_per_task
        /\ substep.cpus_per_task <= request.cpus_per_task

\* C8: on success the fitted cores per task are the smaller of the desired
\* cores per task and the cores of a node, and the fitted tasks the smaller
\* of the desired tasks and the available cores divided (rounding down) by
\* the fitted cores per task; the example (8 tasks desired, at least 4, 2
\* cores per task, 10 cores, 4 on a node) is fitted to 5 tasks.
C8_FittedValues ==
    /\ FitSucceeded =>
        /\ substep.cpus_per_task =
                Min(request.cpus_per_task, capacity.cores_per_node)
        /\ substep.ntasks =
                Min(request.ntasks, capacity.cores \div substep.cpus_per_task)
    /\ (fpc = "fitted" /\ request = ExampleSubstep
            /\ capacity = ExampleCapacity) =>
        /\ fit_error = None
        /\ substep.ntasks = 5

\* C8 witness: the example was fitted
C8_Witness ==
    /\ FitSucceeded
    /\ request = ExampleSubstep
    /\ capacity = ExampleCapacity
    /\ substep.ntasks = 5
    /\ substep.cpus_per_task = 2

\* C9: the fit fails with InsufficientCores exactly when the request's
\* min_cpus_per_task exceeds the cores of a node, and then the substep has no
\* fitted values: its resources are what they were.
C9_InsufficientCores ==
    fpc = "fitted" =>
        /\ fit_error = "InsufficientCores" <=>
                request.min_cpus_per_task > capacity.cores_per_node
        /\ fit_error = "InsufficientCores" => substep = request

\* C9 witness: a fit failed with InsufficientCores on a machine with enough
\* cores in total for the request
C9_Witness ==
    /\ fpc = "fitted"
    /\ fit_error = "InsufficientCores"
    /\ request.min_cpus_per_task * request.min_tasks <= capacity.cores

\* C10: when the cores-per-task check passes, the fit fails with
\* InsufficientTasks exactly when the available cores divided (rounding
\* down) by the fitted cores per task are fewer than min_tasks, and
\* succeeds otherwise.
C10_InsufficientTasks ==
    (fpc = "fitted" /\ request.min_cpus_per_task <= capacity.cores_per_node) =>
        LET cpus == Min(request.cpus_per_task, capacity.cores_per_node)
            short == capacity.cores \div cpus < request.min_tasks
        IN  /\ fit_error = "InsufficientTasks" <=> short
            /\ fit_error = None <=> ~short

\* the equivalence of C10 for the requests whose minimums do not exceed what
\* they desire
InsufficientTasksOfWellFormedRequest ==
    (/\ fpc = "fitted"
     /\ WellFormed(request)
     /\ request.min_cpus_per_task <= capacity.cores_per_node) =>
        LET cpus == Min(request.cpus_per_task, capacity.cores_per_node)
            short == capacity.cores \div cpus < request.min_tasks
        IN  /\ fit_error = "InsufficientTasks" <=> short
            /\ fit_error = None <=> ~short

\* C19: the fit is deterministic and idempotent: a second call of
\* constrain_resources with the same available cores leaves the substep as
\* the first call left it and gives the same outcome, the same error or the
\* same fitted values.
C19_FitIdempotent ==
    [][ConstrainAgain => (substep' = substep /\ fit_error' = fit_error)]_vars

\* C19 witness: a substep fitted to fewer tasks than it desired was fitted
\* again and kept its values
C19_Witness ==
    /\ fpc = "refitted"
    /\ fit_error = None
    /\ substep.ntasks < request.ntasks
    /\ substep.ntasks = Min(request.ntasks,
                            capacity.cores \div substep.cpus_per_task)

\* the fields of a substep's resources
ResourceFields == {"cpus_per_task", "min_cpus_per_task", "ntasks", "min_tasks"}

\* C20: set_resources and set_model_resources change exactly the fields they
\* are given: a field that is given takes the given value, every other field
\* keeps its value, and a call without arguments changes nothing.  (The
\* steps that stay in the configure phase are the calls of SetResources and
\* SetModelResources.)
C20_SetResourcesFrame ==
    [][(fpc = "configure" /\ fpc' = "configure") =>
        /\ \A f \in ResourceFields :
                substep'[f] = IF overrides'[f].some THEN overrides'[f].val
                              ELSE substep[f]
        /\ overrides' = NoOverrides => substep' = substep]_vars

\* C20 witness: a call that gave ntasks alone changed ntasks and left the
\* cores per task, which are not the default, as they were
C20_Witness ==
    /\ fpc = "configure"
    /\ overrides = [NoOverrides EXCEPT !.ntasks = Some(MaxRes)]
    /\ substep.ntasks = MaxRes
    /\ substep.cpus_per_task > 1
    /\ substep.min_tasks > 1

\* C21: a set_resources call on a substep that has been fitted fails with
\* ConfigurationTooLate and leaves the substep's request and fitted
\* allocation as they were.
C21_ConfigureAfterFit ==
    [][(fpc = "fitted" /\ fpc' = "late") =>
            /\ fit_error' = "ConfigurationTooLate"
            /\ substep' = substep
            /\ request' = request]_vars

\* C22: after its construction and after any sequence of set_resources and
\* set_model_resources calls, the request of a substep has min_tasks <=
\* desired tasks, min_cpus_per_task <= desired cpus_per_task and every
\* value >= 1.
C22_RequestInvariant ==
    fpc = "configure" =>
        /\ WellFormed(substep)
        /\ \A f \in ResourceFields : substep[f] >= 1

\* update_namelist_pio never raises: with one PIO task per node the stride
\* cores \div ceil(cores / cores_per_node) is at most the cores of a node,
\* also for more cores per task than a node has
PioStrideWithinNode ==
    fpc = "pio" =>
        /\ pio.error = None
        /\ pio.updated
        /\ pio.config_pio_stride <= capacity.cores_per_node

\* C33: update_namelist_pio sets one PIO task per node the model substep
\* runs on: config_pio_num_iotasks is the number of nodes its fitted cores
\* (ntasks x cpus_per_task) occupy, ceil(total cores / cores_per_node), and
\* config_pio_num_iotasks x config_pio_stride is at most that total.
C33_PioTaskPerNode ==
    (fpc = "pio" /\ pio.updated) =>
        LET total == substep.ntasks * substep.cpus_per_task
        IN  /\ pio.config_pio_num_iotasks =
                    CeilDiv(total, capacity.cores_per_node)
            /\ pio.config_pio_num_iotasks * pio.config_pio_stride <= total

\* C37: for all cores >= 1 and cores_per_node >= 1, update_namelist_pio
\* (called with cores = the model substep's cpus_per_task) computes
\* pio_num_iotasks = ceil(cores / cores_per_node) and pio_stride =
\* floor(cores / pio_num_iotasks), with 1 <= pio_stride <= cores_per_node
\* and pio_num_iotasks x pio_stride <= cores; it never raises 'Not enough
\* nodes for the number of cores'.
C37_PioNeverRaises ==
    fpc = "pio" =>
        LET cores == substep.cpus_per_task
            num == pio.config_pio_num_iotasks
            stride == pio.config_pio_stride
        IN  /\ pio.error = None
            /\ pio.updated
            /\ num = CeilDiv(cores, capacity.cores_per_node)
            /\ stride * num <= cores
            /\ cores < (stride + 1) * num
            /\ 1 <= stride
            /\ stride <= capacity.cores_per_node

\* more cores than a node has: three cores on nodes of two give two PIO
\* tasks with stride one
C37_Witness ==
    /\ fpc = "pio"
    /\ substep.cpus_per_task = 3
    /\ capacity.cores_per_node = 2
    /\ pio.config_pio_num_iotasks = 2
    /\ pio.config_pio_stride = 1


(***************************************************************************)
(* SpecCase: a test case from its construction, through add_step calls, to *)
(* check_validation.                                                       *)
(***************************************************************************)

\* the keys of a dict, kept as the sequence of its items in insertion order
Keys(d) == [i \in DOMAIN d |-> d[i].name]

\* d[key] = value on a Python dict: the value of a key that is there is
\* replaced where it is, a new key goes to the end
DictSet(d, key, value) ==
    IF \E i \in DOMAIN d : d[i].name = key
    THEN [i \in DOMAIN d |->
            IF d[i].name = key THEN [name |-> key, step |-> value] ELSE d[i]]
    ELSE Append(d, [name |-> key, step |-> value])

\* TestCase.add_step (testcase.py 178-194)
add_step(case, step, run_by_default) ==
    [case EXCEPT !.steps = DictSet(case.steps, step.name, step.id),
                 !.steps_to_run = IF run_by_default
                                  THEN Append(case.steps_to_run, step.name)
                                  ELSE case.steps_to_run,
                 !.calls = @ + 1]

\* TestCase.check_validation (testcase.py 196-219): what it raises, or
\* "returned"
check_validation(validation) ==
    IF ~validation.is_none
    THEN LET internal_pass == validation.internal_pass
             baseline_pass == validation.baseline_pass
             after_internal == IF internal_pass # None /\ internal_pass # "True"
                               THEN FALSE ELSE TRUE
             both_pass == IF baseline_pass # None /\ baseline_pass # "True"
                          THEN FALSE ELSE after_internal
         IN  IF both_pass THEN "ValueError" ELSE "returned"
    ELSE "returned"

\* TestCase.__init__ (testcase.py 107-125): no steps, nothing to run, no
\* validation
InitCase ==
    /\ tc = [steps |-> <<>>, steps_to_run |-> <<>>, calls |-> 0,
             validation |-> NoValidation, check |-> None]
    /\ FitOff
    /\ RunnerOff
    /\ SshOff
    /\ SelectOff
    /\ PairOff

\* a call of add_step, with a new step object of any name, run by default
\* or not
AddStep ==
    /\ tc.check = None
    /\ tc.calls < MaxAdds
    /\ \E name \in StepNames, run_by_default \in BOOLEAN :
            tc' = add_step(tc, [name |-> name, id |-> tc.calls + 1],
                           run_by_default)
    /\ UNCHANGED <<rvars, fvars, ssh, sel, pair>>

\* validate() of the test case leaves a validation dictionary (testcase.py
\* 75-78), as the comparisons of its files turned out
CaseValidate ==
    /\ tc.check = None
    /\ tc.validation = NoValidation
    /\ \E v \in Validations \ {NoValidation} :
            tc' = [tc EXCEPT !.validation = v]
    /\ UNCHANGED <<rvars, fvars, ssh, sel, pair>>

\* a call of check_validation
CheckValidation ==
    /\ tc.check = None
    /\ tc' = [tc EXCEPT !.check = check_validation(tc.validation)]
    /\ UNCHANGED <<rvars, fvars, ssh, sel, pair>>

NextCaseSpec ==
    \/ AddStep
    \/ CaseValidate
    \/ CheckValidation

SpecCase == InitCase /\ [][NextCaseSpec]_vars

(***************************************************************************)
(* Claims about the test case, checked under SpecCase.                     *)
(***************************************************************************)

\* a sequence without a repeated element
NoDuplicates(seq) ==
    \A i, j \in DOMAIN seq : seq[i] = seq[j] => i = j

\* C31: after any sequence of add_step calls the step names are unique in
\* steps, and steps_to_run is an ordered subset of them: it has no duplicate
\* and every name in it is a key of steps.
C31_StepsToRunSubset ==
    /\ NoDuplicates(Keys(tc.steps))
    /\ NoDuplicates(tc.steps_to_run)
    /\ Range(tc.steps_to_run) \subseteq Range(Keys(tc.steps))

\* a validation dictionary that records a failed comparison
FailedComparison(validation) ==
    /\ ~validation.is_none
    /\ \/ validation.internal_pass = "False"
       \/ validation.baseline_pass = "False"

\* C32: check_validation raises exactly when the validation dictionary
\* records a failed comparison (internal_pass or baseline_pass is False),
\* and returns when validation is None or every comparison is True or None.
C32_CheckValidation ==
    tc.check \in {"returned", "ValueError"} =>
        (tc.check = "ValueError" <=> FailedComparison(tc.validation))

(***************************************************************************)
(* SpecSsh: the ssh_adjustment step, from its construction, through        *)
(* runtime_setup, to the run of its substeps.                              *)
(***************************************************************************)

\* the file names of ssh_adjustment.py
AdjustingInit(i) == <<"adjusting_init", i>>
OutputSsh(i) == <<"output_ssh", i>>
AdjustedInit == <<"adjusted_init">>
GraphInfo == <<"graph.info">>

\* SshAdjustment.__init__ (ssh_adjustment.py 60-72): the input and output
\* files the step declares
SshInputs == {AdjustingInit(0), GraphInfo}
SshOutputs == {AdjustedInit}

\* a runtime_setup in which every iteration hands on to a next iteration
next_filename_never_last(iter_index, iter_count) ==
    AdjustingInit(iter_index + 1)

\* runtime_setup, ssh_adjustment.py 138-141
next_filename(iter_index, iter_count) ==
    IF iter_index < iter_count - 1
    THEN AdjustingInit(iter_index + 1)
    ELSE AdjustedInit

\* runtime_setup, one iteration of its loop (ssh_adjustment.py 135-162):
\* the three substeps it adds, in the order of the add_substep calls
IterationSubsteps(step, iter_index, iter_count) ==
    LET in_filename == AdjustingInit(iter_index)
        ssh_filename == OutputSsh(iter_index)
    IN  << [name |-> <<"model_setup", iter_index>>,
            in_filename |-> in_filename, ssh_filename |-> ssh_filename,
            next_filename |-> None,
            res |-> Substep_init(1, 1, 1, 1)],
           [name |-> <<"model", iter_index>>,
            in_filename |-> None, ssh_filename |-> None,
            next_filename |-> None,
            res |-> ModelSubstep_init(step.ntasks, step.min_tasks,
                                      step.openmp_threads)],
           [name |-> <<"adjust_ssh", iter_index>>,
            in_filename |-> in_filename, ssh_filename |-> ssh_filename,
            next_filename |-> next_filename(iter_index, iter_count),
            res |-> Substep_init(1, 1, 1, 1)] >>

\* SshAdjustment.runtime_setup (ssh_adjustment.py 125-162): the substeps
\* after the loop over range(iter_count), from iteration iter_index on
RECURSIVE runtime_setup(_, _, _, _)
runtime_setup(step, to_run, iter_index, iter_count) ==
    IF iter_index >= iter_count THEN to_run
    ELSE LET subs == IterationSubsteps(step, iter_index, iter_count)
         IN  runtime_setup(step,
                Step_add_substep(Step_add_substep(Step_add_substep(
                    to_run, subs[1]), subs[2]), subs[3]),
                iter_index + 1, iter_count)

\* the values of the 'variable' option of the ssh_adjustment config section
SshVariables == {"ssh", "landIcePressure", "temperature"}

\* the arguments of SshAdjustment.set_resources
SshRes == {Nothing, Some(2)}

\* SshAdjustment.__init__ (ssh_adjustment.py 51-85): no substeps, one task,
\* one thread; the config has any iteration count and variable; the work
\* directory holds the declared inputs
InitSsh ==
    /\ \E n \in 1 .. MaxIter, v \in SshVariables :
        ssh = [spc |-> "setup",
               ntasks |-> 1, min_tasks |-> 1, openmp_threads |-> 1,
               iterations |-> n, variable |-> v,
               substeps |-> <<>>, pos |-> 1,
               files |-> SshInputs,
               streams |-> [in_filename |-> None, out_filename |-> None],
               missing |-> {}, error |-> None]
    /\ RunnerOff
    /\ FitOff
    /\ CaseOff
    /\ SelectOff
    /\ PairOff

\* SshAdjustment.set_resources (ssh_adjustment.py 87-123), before the run
SshSetResources ==
    /\ ssh.spc = "setup"
    /\ \E n, mn, t \in SshRes :
        /\ n.some \/ mn.some \/ t.some
        /\ ssh' = [ssh EXCEPT
                    !.ntasks = IF n.some THEN n.val ELSE @,
                    !.min_tasks = IF mn.some THEN mn.val ELSE @,
                    !.openmp_threads = IF t.some THEN t.val ELSE @,
                    !.spc = "configured"]
    /\ UNCHANGED <<rvars, fvars, tc, sel, pair>>

\* prepare_steps_to_run calls the step's runtime_setup (testcase.py 232)
SshRuntimeSetup ==
    /\ ssh.spc \in {"setup", "configured"}
    /\ ssh' = [ssh EXCEPT
                !.substeps = runtime_setup(ssh, ssh.substeps, 0,
                                           ssh.iterations),
                !.spc = "run"]
    /\ UNCHANGED <<rvars, fvars, tc, sel, pair>>

\* what the run of a substep reads: PreModelSubstep.run partitions the graph
\* file (model.py 119-120), the model reads the file its streams file names
\* as input, PostModelSubstep.run opens in_filename and ssh_filename
\* (ssh_adjustment.py 272-287)
SshReads(sub, streams) ==
    CASE sub.name[1] = "model_setup" -> {GraphInfo}
      [] sub.name[1] = "model" -> {streams.in_filename}
      [] sub.name[1] = "adjust_ssh" -> {sub.in_filename, sub.ssh_filename}

\* what the run of a substep writes: the model writes the file its streams
\* file names as output, PostModelSubstep.run writes next_filename
\* (ssh_adjustment.py 323)
SshWrites(sub, streams) ==
    CASE sub.name[1] = "model_setup" -> {}
      [] sub.name[1] = "model" -> {streams.out_filename}
      [] sub.name[1] = "adjust_ssh" -> {sub.next_filename}

\* _run_step runs the next substep of the step (testcase.py 293-314):
\* PreModelSubstep.run writes the streams file for its iteration
\* (ssh_adjustment.py 209-217); PostModelSubstep.run raises ValueError for a
\* variable it does not know (ssh_adjustment.py 264-266); any substep may
\* fail, and then the step ends
SshSubstepRun ==
    /\ ssh.spc = "run"
    /\ ssh.pos <= Len(ssh.substeps)
    /\ LET sub == ssh.substeps[ssh.pos]
           kind == sub.name[1]
           unknown == kind = "adjust_ssh"
                        /\ ssh.variable \notin {"ssh", "landIcePressure"}
           streams == IF kind = "model_setup"
                      THEN [in_filename |-> sub.in_filename,
                            out_filename |-> sub.ssh_filename]
                      ELSE ssh.streams
       IN  \E ok \in BOOLEAN :
            ssh' = IF unknown
                   THEN [ssh EXCEPT !.spc = "failed", !.error = "ValueError"]
                   ELSE IF ~ok
                   THEN [ssh EXCEPT !.spc = "failed",
                                    !.error = "SubstepError"]
                   ELSE [ssh EXCEPT
                            !.streams = streams,
                            !.missing = @ \cup
                                (SshReads(sub, streams) \ ssh.files),
                            !.files = @ \cup SshWrites(sub, streams),
                            !.pos = @ + 1]
    /\ UNCHANGED <<rvars, fvars, tc, sel, pair>>

\* _run_step after the last substep (testcase.py 316-325): the check of the
\* declared outputs
SshStepEnd ==
    /\ ssh.spc = "run"
    /\ ssh.pos > Len(ssh.substeps)
    /\ ssh' = IF SshOutputs \subseteq ssh.files
              THEN [ssh EXCEPT !.spc = "done"]
              ELSE [ssh EXCEPT !.spc = "failed", !.error = "MissingOutputs"]
    /\ UNCHANGED <<rvars, fvars, tc, sel, pair>>

NextSsh ==
    \/ SshSetResources
    \/ SshRuntimeSetup
    \/ SshSubstepRun
    \/ SshStepEnd

SpecSsh == InitSsh /\ [][NextSsh]_vars

(***************************************************************************)
(* Claims about the ssh_adjustment step, checked under SpecSsh.            *)
(***************************************************************************)

\* runtime_setup has returned
SshSetUp == ssh.spc \in {"run", "done", "failed"}

\* the substep of a kind of iteration i, by its place in the step's substeps
SshSubstep(i, place) == ssh.substeps[3 * i + place]

\* C38: after runtime_setup with iterations = N >= 1 the substeps of the
\* step are, in order for i = 0 .. N-1, model_<i>_setup, model_<i>,
\* adjust_ssh_<i>; iteration 0 reads the declared input adjusting_init0.nc,
\* every iteration i < N-1 writes adjusting_init<i+1>.nc, the file
\* iteration i+1 reads, and iteration N-1 writes the declared output
\* adjusted_init.nc; every file a substep reads is a declared input or was
\* written by a substep before it.
C38_SshIterations ==
    SshSetUp =>
        LET N == ssh.iterations
        IN  /\ Len(ssh.substeps) = 3 * N
            /\ \A i \in 0 .. N - 1 :
                /\ SshSubstep(i, 1).name = <<"model_setup", i>>
                /\ SshSubstep(i, 2).name = <<"model", i>>
                /\ SshSubstep(i, 3).name = <<"adjust_ssh", i>>
                /\ SshSubstep(i, 1).in_filename = SshSubstep(i, 3).in_filename
                /\ i < N - 1 =>
                    /\ SshSubstep(i, 3).next_filename = AdjustingInit(i + 1)
                    /\ SshSubstep(i + 1, 1).in_filename =
                            SshSubstep(i, 3).next_filename
            /\ SshSubstep(0, 1).in_filename = AdjustingInit(0)
            /\ SshSubstep(0, 1).in_filename \in SshInputs
            /\ SshSubstep(N - 1, 3).next_filename \in SshOutputs
            /\ ssh.missing = {}
            /\ ssh.spc = "done" => ssh.error = None

\* three iterations have run to the end and left adjusted_init.nc
C38_Witness ==
    /\ ssh.spc = "done"
    /\ ssh.iterations = 3
    /\ ssh.pos = 10
    /\ AdjustedInit \in ssh.files
    /\ AdjustingInit(2) \in ssh.files

(***************************************************************************)
(* SpecSelect: main, from its arguments and the pickle files of the        *)
(* directory it is called in to the function it calls.                     *)
(***************************************************************************)

\* the pickle files a directory may hold, by their names without .pickle:
\* test_case.pickle, step.pickle and the files of two suites
PickleFiles == {"test_case", "step", "nightly", "pr"}

\* the suite argument: not given, a suite that may be set up in the
\* directory, or one that is not
SuiteArguments == {None, "nightly", "quick"}

\* the --substep argument: not given, or the name of a substep
SubstepArguments == {None, "model"}

\* what main goes on to: a call, or an exception
Call(function, suite_name, is_test_case) == [function |-> function, suite_name |-> suite_name, is_test_case |-> is_test_case, error |-> None]
Raise(error) == [function |-> None, suite_name |-> None, is_test_case |-> FALSE, error |-> error]

\* a main that looks for step.pickle before test_case.pickle
main_step_first(suite, substep_name, directory) ==
    IF suite # None THEN Call("run_tests", suite, FALSE)
    ELSE IF "step" \in directory
    THEN IF substep_name = None THEN Call("run_step", None, FALSE)
         ELSE Call("run_substep", None, FALSE)
    ELSE IF "test_case" \in directory
    THEN Call("run_tests", "test_case", TRUE)
    ELSE LET pickles == directory
         IN  IF Cardinality(pickles) = 1
             THEN Call("run_tests", CHOOSE f \in pickles : TRUE, FALSE)
             ELSE IF Cardinality(pickles) = 0 THEN Raise("OSError")
             ELSE Raise("ValueError")

\* main, serial.py 316-340: the if / elif chain over args.suite and the
\* files of the directory; glob('*.pickle') gives every pickle file of the
\* directory
main(suite, substep_name, directory) ==
    IF suite # None THEN Call("run_tests", suite, FALSE)
    ELSE IF "test_case" \in directory
    THEN Call("run_tests", "test_case", TRUE)
    ELSE IF "step" \in directory
    THEN IF substep_name = None THEN Call("run_step", None, FALSE)
         ELSE Call("run_substep", None, FALSE)
    ELSE LET pickles == directory
         IN  IF Cardinality(pickles) = 1
             THEN Call("run_tests", CHOOSE f \in pickles : TRUE, FALSE)
             ELSE IF Cardinality(pickles) = 0 THEN Raise("OSError")
             ELSE Raise("ValueError")

\* compass run is called with any arguments in any directory
InitSelect ==
    /\ \E suite \in SuiteArguments, substep_name \in SubstepArguments,
          directory \in SUBSET PickleFiles :
        sel = [spc |-> "main", suite |-> suite, substep |-> substep_name,
               directory |-> directory, selected |-> Raise(None),
               opened |-> None, error |-> None]
    /\ RunnerOff
    /\ FitOff
    /\ CaseOff
    /\ SshOff
    /\ PairOff

\* main parses its arguments and calls run_tests, run_step or run_substep,
\* or raises (serial.py 313-340)
MainSelect ==
    /\ sel.spc = "main"
    /\ LET m == main(sel.suite, sel.substep, sel.directory)
       IN  sel' = [sel EXCEPT !.selected = m,
                              !.error = m.error,
                              !.spc = IF m.error = None THEN "called"
                                      ELSE "raised"]
    /\ UNCHANGED <<rvars, fvars, tc, ssh, pair>>

\* the function main called opens its pickle file: run_tests raises
\* ValueError when <suite_name>.pickle does not exist (serial.py 56-65),
\* run_step and run_substep open step.pickle (serial.py 239-240, 265-266);
\* a file that is there may still fail to load
OpenPickle ==
    /\ sel.spc = "called"
    /\ LET m == sel.selected
           file == IF m.function = "run_tests" THEN m.suite_name ELSE "step"
       IN  \E loads \in BOOLEAN :
            sel' = IF file \notin sel.directory
                   THEN [sel EXCEPT !.spc = "raised",
                                    !.error = IF m.function = "run_tests"
                                              THEN "ValueError"
                                              ELSE "FileNotFoundError"]
                   ELSE IF ~loads
                   THEN [sel EXCEPT !.spc = "raised",
                                    !.error = "UnpicklingError"]
                   ELSE [sel EXCEPT !.spc = "running", !.opened = file]
    /\ UNCHANGED <<rvars, fvars, tc, ssh, pair>>

NextSelect ==
    \/ MainSelect
    \/ OpenPickle

SpecSelect == InitSelect /\ [][NextSelect]_vars

(***************************************************************************)
(* Claims about main, checked under SpecSelect.                            *)
(***************************************************************************)

\* the modes of an invocation
SuiteMode(m) == m.function = "run_tests" /\ ~m.is_test_case
SingleCaseMode(m) == m.function = "run_tests" /\ m.is_test_case
SingleStepMode(m) == m.function = "run_step"
SingleSubstepMode(m) == m.function = "run_substep"

\* C39: main selects exactly one mode per invocation, by this precedence: a
\* suite argument gives suite mode; otherwise an existing test_case.pickle
\* gives single-case mode; otherwise an existing step.pickle gives
\* single-step mode, or single-substep mode when --substep is given;
\* otherwise exactly one pickle file gives suite mode for it; with no pickle
\* file or more than one, main fails with an error and nothing is executed.
C39_ModeSelection ==
    sel.spc \in {"called", "raised", "running"} =>
        LET m == sel.selected
            has_case == "test_case" \in sel.directory
            has_step == "step" \in sel.directory
            n == Cardinality(sel.directory)
        IN  /\ sel.suite # None =>
                    SuiteMode(m) /\ m.suite_name = sel.suite
            /\ (sel.suite = None /\ has_case) => SingleCaseMode(m)
            /\ (sel.suite = None /\ ~has_case /\ has_step) =>
                    IF sel.substep = None THEN SingleStepMode(m)
                    ELSE SingleSubstepMode(m)
            /\ (sel.suite = None /\ ~has_case /\ ~has_step /\ n = 1) =>
                    SuiteMode(m) /\ sel.directory = {m.suite_name}
            /\ (sel.suite = None /\ ~has_case /\ ~has_step /\ n # 1) =>
                    /\ m.function = None
                    /\ m.error \in {"OSError", "ValueError"}
                    /\ sel.spc = "raised"
                    /\ sel.opened = None
            /\ m.function = None <=> m.error # None
            /\ sel.opened # None => sel.opened \in sel.directory

\* both test_case.pickle and step.pickle are in the directory, with
\* --substep given: the test case is run
C39_Witness ==
    /\ sel.spc = "running"
    /\ sel.suite = None
    /\ sel.substep # None
    /\ {"test_case", "step"} \subseteq sel.directory
    /\ sel.opened = "test_case"

(***************************************************************************)
(* Claims about the calls that prepare a step and about the working        *)
(* directory, checked under SpecMain.                                      *)
(***************************************************************************)

\* the runtime_setup calls made for test_case so far
RuntimeSetups ==
    {i \in DOMAIN setupLog : setupLog[i].op = "runtime_setup"}

\* C35: whenever a step's runtime_setup is invoked at run time, in a case
\* run or in single-substep mode, the step's config attribute has already
\* been set to the configuration common_setup loaded for the test case in
\* this invocation.
C35_ConfigBeforeRuntimeSetup ==
    \A i \in RuntimeSetups : setupLog[i].config = Loaded

\* the constrain_resources calls made for the substeps of `step` so far
FitsOf(step) ==
    {i \in DOMAIN setupLog : /\ setupLog[i].op = "constrain_resources"
                             /\ setupLog[i].step = step}

\* the steps of this invocation that are going to execute: the step of
\* step.pickle in single-substep mode, else the steps of steps_to_run that
\* are not cached
StepsGoingToRun ==
    IF entry = "run_substep" THEN {CurStep}
    ELSE {s \in Range(test_case.steps_to_run) :
            ~StepCached(test_case.cached, s)}

\* a substep of test_case is about to execute, executes or has executed
Executing ==
    \/ pc \in {"substep", "in_substep", "only_substep"}
    \/ subLog # <<>>

\* the resources of substep `name` after a fit against `cap`
FittedTo(name, cap) ==
    Substep_constrain_resources(NewSubstep(name).res, cap.cores,
                                cap.cores_per_node).substep

\* C34: in every entry point, for each non-cached step that is going to
\* execute, runtime_setup of the step is called before any of its substeps
\* is fit, and every substep of every step to run has been fit against the
\* current capacity before the first substep executes.
C34_SetupThenFitThenRun ==
    /\ \A i \in DOMAIN setupLog :
            setupLog[i].op = "constrain_resources" =>
                \E j \in RuntimeSetups :
                    j < i /\ setupLog[j].step = setupLog[i].step
    /\ Executing =>
            \A s \in StepsGoingToRun, n \in SubstepNames :
                /\ \E i \in FitsOf(s) :
                        /\ setupLog[i].substep = n
                        /\ setupLog[i].capacity = test_case.capacity
                /\ substeps[s][n].res = FittedTo(n, test_case.capacity)

\* compass run --substep has run its substep after runtime_setup and the
\* fit of the substeps of the step, on a machine that cut its resources
C34_Witness ==
    /\ entry = "run_substep"
    /\ pc = "exit0"
    /\ Len(setupLog) = 1 + MaxSubsteps
    /\ subLog # <<>>
    /\ \E n \in SubstepNames :
            substeps[CurStep][n].res # NewSubstep(n).res

\* C40: after run_tests has processed all test cases the working directory
\* is the one at entry, whatever passed or failed; within a test case it is
\* the one at entry of TestCase.run after each step that succeeds; and the
\* substeps of a step execute with the step's work directory as working
\* directory.
C40_WorkingDirectory ==
    /\ entry = "run_tests" /\ pc \in {"exit0", "exit1"} => cwd = EntryDir
    /\ pc \in {"step", "validate"} =>
            /\ cwd = saved_cwd.run
            /\ cwd = TestCase_work_dir(args.is_test_case, entry,
                                       test_case.name)
    /\ pc \in {"substep", "in_substep", "only_substep"} =>
            cwd = Step_work_dir(args.is_test_case, entry, test_case.name,
                                CurStep)

\* a suite whose last test case failed in a substep, which left the
\* working directory in the step's work directory, has ended
C40_Witness ==
    /\ entry = "run_tests"
    /\ ~args.is_test_case
    /\ pc = "exit1"
    /\ exc.type = "SubstepError"
    /\ Len(ranCases) = MaxCases
    /\ cwd = EntryDir

(***************************************************************************)
(* SpecModel: the two substeps add_model_substeps gives a step, from their *)
(* construction, through the fit, to their run by _run_step.               *)
(***************************************************************************)

\* the names of the two substeps (model.py 102, 64-65)
ModelSetupName(substep_prefix) == <<substep_prefix, "_setup">>
ModelName(substep_prefix) == <<substep_prefix>>

\* add_model_substeps, model.py 64-70: the setup substep is added to the
\* step, then the model substep
add_model_substeps(to_run, substep_prefix) ==
    Step_add_substep(Step_add_substep(to_run, ModelSetupName(substep_prefix)),
                     ModelName(substep_prefix))

\* a partition that calls the executable for one core too
partition_always(cores) == <<cores>>

\* partition, model.py 251-274: the calls of the partition executable, each
\* with the number of parts it is asked for
partition(cores) == IF cores > 1 THEN <<cores>> ELSE <<>>

\* ModelSetupSubstep.run, model.py 109-120: what it requests, in order
ModelSetupSubstep_run(model_substep, update_pio, partition_graph, cores_per_node) ==
    LET cores == model_substep.ntasks
        namelist == IF update_pio
                    THEN <<[op |-> "update_namelist_pio",
                            count |-> update_namelist_pio(
                                model_substep.cpus_per_task,
                                cores_per_node).config_pio_num_iotasks]>>
                    ELSE <<>>
        parts == IF partition_graph THEN partition(cores) ELSE <<>>
    IN  namelist \o [i \in DOMAIN parts |->
                        [op |-> "partition", count |-> parts[i]]]

\* the threads of the model in SpecModel
PairThreads == {1, 2}

\* add_model_substeps is called for a step without substeps, with any
\* resources and options
InitPair ==
    /\ \E n, mn \in ResValues, t \in PairThreads,
          update_pio, partition_graph \in BOOLEAN :
        pair = [mpc |-> "prepare",
                update_pio |-> update_pio,
                partition_graph |-> partition_graph,
                model |-> ModelSubstep_init(n, mn, t),
                setup |-> Substep_init(1, 1, 1, 1),
                to_run |-> add_model_substeps(<<>>, "model"),
                pos |-> 1,
                cores_per_node |-> 1,
                ran |-> <<>>,
                events |-> <<>>,
                error |-> None]
    /\ RunnerOff
    /\ FitOff
    /\ CaseOff
    /\ SshOff
    /\ SelectOff

\* prepare_steps_to_run, testcase.py 233-236: constrain_resources of the
\* substeps of the step, in the order they were added; the first error is
\* raised
PairPrepare ==
    /\ pair.mpc = "prepare"
    /\ \E cap \in FitCapacities :
        LET s == Substep_constrain_resources(pair.setup, cap.cores,
                                             cap.cores_per_node)
            m == Substep_constrain_resources(pair.model, cap.cores,
                                             cap.cores_per_node)
        IN  pair' = IF s.error # None
                    THEN [pair EXCEPT !.mpc = "failed", !.error = s.error]
                    ELSE IF m.error # None
                    THEN [pair EXCEPT !.mpc = "failed", !.error = m.error,
                                      !.setup = s.substep]
                    ELSE [pair EXCEPT !.mpc = "run",
                                      !.setup = s.substep,
                                      !.model = m.substep,
                                      !.cores_per_node = cap.cores_per_node]
    /\ UNCHANGED <<rvars, fvars, tc, ssh, sel>>

\* _run_step, one iteration over step.substeps_to_run (testcase.py 293-314):
\* the setup substep has no args and its run() is called; the model substep
\* has args and is launched by run_command with its ntasks; either may fail
PairSubstepRun ==
    /\ pair.mpc = "run"
    /\ LET name == pair.to_run[pair.pos]
           requests ==
                IF name = ModelSetupName("model")
                THEN ModelSetupSubstep_run(pair.model, pair.update_pio,
                                           pair.partition_graph,
                                           pair.cores_per_node)
                ELSE <<[op |-> "run_command", count |-> pair.model.ntasks]>>
       IN  \E ok \in BOOLEAN :
            pair' = [pair EXCEPT
                        !.ran = Append(@, name),
                        !.events = @ \o requests,
                        !.pos = @ + 1,
                        !.error = IF ok THEN None ELSE "SubstepError",
                        !.mpc = IF ~ok THEN "failed"
                                ELSE IF pair.pos = Len(pair.to_run)
                                THEN "done"
                                ELSE "run"]
    /\ UNCHANGED <<rvars, fvars, tc, ssh, sel>>

NextPair ==
    \/ PairPrepare
    \/ PairSubstepRun

SpecModel == InitPair /\ [][NextPair]_vars

(***************************************************************************)
(* Claims about the model substeps, checked under SpecModel.               *)
(***************************************************************************)

\* the numbers of parts the partition executable was asked for
PartitionCounts ==
    LET IsPartition(e) == e.op = "partition"
        requests == SelectSeq(pair.events, IsPartition)
    IN  [i \in DOMAIN requests |-> requests[i].count]

\* the task counts the model was launched with
LaunchCounts ==
    LET IsLaunch(e) == e.op = "run_command"
        launches == SelectSeq(pair.events, IsLaunch)
    IN  [i \in DOMAIN launches |-> launches[i].count]

\* the model substep has been launched
ModelLaunched == ModelName("model") \in Range(pair.ran)

====
